---- MODULE Spec2Model ----
(***************************************************************************)
(* Model of the mediabox transcoder: scripts/media_update.py               *)
(* (transcode_file, build_ffmpeg_command), scripts/file_lock.py (FileLock) *)
(* and scripts/media_database.py (MediaDatabase).                          *)
(*                                                                         *)
(* The specifications share the variables:                                 *)
(*   Spec       two worker processes call transcode_file on the same file  *)
(*   SpecSeq    the same calls, one after the other                        *)
(*   SpecCache  two worker processes use the cache of one directory, each  *)
(*              for its own file                                           *)
(*   SpecBuild  build_ffmpeg_command as a function of probe and flags      *)
(*   SpecSkip   the skip decision of transcode_file as a function of the   *)
(*              probe, the extension and the flags                         *)
(*   SpecName   update_filename_resolution as a function of the file name  *)
(*   SpecLock   two worker processes use a FileLock on one file            *)
(*   SpecInt    calls one after the other, with signals, the sweep of      *)
(*              orphaned temp files and the passing of time                *)
(*   SpecWalk   get_media_files as a function of the directory listing     *)
(*   SpecSidecar  the renaming of supporting files after a conversion      *)
(*   SpecSubs   build_ffmpeg_command on probes with subtitle streams       *)
(*   SpecClean  cleanup_missing_files under two mount paths                *)
(*   SpecCached transcode_file's outcome from a cached and a fresh probe   *)
(*   SpecAgain  a conversion and the skip decision on its output           *)
(***************************************************************************)
EXTENDS Integers, Sequences, FiniteSets, TLC

\* ------------------------------------------------------------------------
\* Bounds of the model
\* ------------------------------------------------------------------------
MaxAudio == 2            \* audio streams per generated probe
MaxSubs == 2             \* subtitle streams per generated probe

\* ------------------------------------------------------------------------
\* Python helpers
\* ------------------------------------------------------------------------
Absent == "<absent>"     \* a key that is missing from a dict
NoIdx  == -1             \* Python None for a stream index

\* dict.get(key, default)
GetOr(v, d) == IF v = Absent THEN d ELSE v

\* positions of a sequence / first position satisfying a test (0 if none)
Pos(seq) == 1..Len(seq)
FirstPos(seq, Test(_)) ==
    IF \E i \in Pos(seq) : Test(seq[i])
    THEN CHOOSE i \in Pos(seq) : Test(seq[i]) /\ \A j \in 1..(i-1) : ~Test(seq[j])
    ELSE 0

\* ------------------------------------------------------------------------
\* Program constants (media_update.py)
\* ------------------------------------------------------------------------
CURRENT_SETTINGS_PATTERN == "C0.5-R6"
ENHANCED_STEREO_TITLE == "English Stereo (C0.5-R6-AAC-VBR2)"
FORCE_STEREO_TITLE    == "English Stereo (Dialogue-C0.5-R6-AAC-VBR2)"
STANDARD_STEREO_TITLE == "English Stereo (AAC-CBR192k)"

\* the titles that contain the substring C0.5-R6 (the `in track_title` test)
TitleHasCurrentSettings(t) == t \in {ENHANCED_STEREO_TITLE, FORCE_STEREO_TITLE}

\* ------------------------------------------------------------------------
\* ffprobe streams.  A probe is the sequence probe['streams']; the stream
\* index is the position in the container.  Language tags are drawn in
\* lower case, so .lower() leaves them as they are.
\* ------------------------------------------------------------------------
VideoStream(i, codec, w, h) ==
    [index |-> i, codec_type |-> "video", codec_name |-> codec,
     channels |-> 0, channel_layout |-> Absent, language |-> Absent,
     title |-> Absent, width |-> w, height |-> h]

AudioStream(i, codec, ch, layout, lang, title) ==
    [index |-> i, codec_type |-> "audio", codec_name |-> codec,
     channels |-> ch, channel_layout |-> layout, language |-> lang,
     title |-> title, width |-> 0, height |-> 0]

\* a subtitle stream; forced is disposition.get('forced', 0) == 1
SubtitleStream(i, codec, lang, forced) ==
    [index |-> i, codec_type |-> "subtitle", codec_name |-> codec,
     channels |-> 0, channel_layout |-> Absent, language |-> lang,
     title |-> Absent, width |-> 0, height |-> 0, forced |-> forced]

\* stream.get('tags', {}).get('language', '')
Lang(s) == GetOr(s.language, "")
\* stream.get('tags', {}).get('title', '')
Title(s) == GetOr(s.title, "")
IsAudio(s) == s.codec_type = "audio"
IsSubtitle(s) == s.codec_type = "subtitle"
IsPgs(s) == IsSubtitle(s) /\ s.codec_name = "hdmv_pgs_subtitle"
TEXT_SUBTITLE_CODECS == {"subrip", "srt", "ass", "ssa", "mov_text"}

StreamAt(p, idx) == p[FirstPos(p, LAMBDA s : s.index = idx)]

\* ------------------------------------------------------------------------
\* build_ffmpeg_command: surround selection
\* ------------------------------------------------------------------------
surround_candidates(p) == SelectSeq(p, LAMBDA s : IsAudio(s) /\ s.channels >= 6)

select_surround_any(p) ==
    LET c == surround_candidates(p)
    IN  IF Len(c) > 0 THEN c[1].index ELSE NoIdx

select_surround(p) ==
    LET c   == surround_candidates(p)
        eng == FirstPos(c, LAMBDA s : Lang(s) = "eng")
        unl == FirstPos(c, LAMBDA s : Lang(s) = "")
    IN  IF eng > 0 THEN c[eng].index
        ELSE IF unl > 0 THEN c[unl].index
        ELSE NoIdx

\* analysis of the selected surround stream s among the other audio
\* streams: which tracks to derive
analyze_stream(s, others, force_stereo) ==
    LET channel_layout == GetOr(s.channel_layout, "unknown")
        has_existing_enhanced_stereo ==
            \E i \in Pos(others) : others[i].channels = 2
                                   /\ TitleHasCurrentSettings(Title(others[i]))
        has_existing_51 == \E i \in Pos(others) : others[i].channels = 6
        want_stereo == ~has_existing_enhanced_stereo \/ force_stereo
    IN  IF channel_layout # "unknown"
        THEN [stereo |-> want_stereo,
              from71 |-> (s.channels = 8 /\ ~has_existing_51),
              processable |-> TRUE, channels |-> s.channels]
        ELSE IF s.channels = 6
        THEN [stereo |-> want_stereo, from71 |-> FALSE,
              processable |-> TRUE, channels |-> s.channels]
        ELSE IF s.channels = 8
        THEN [stereo |-> FALSE, from71 |-> FALSE,
              processable |-> TRUE, channels |-> s.channels]
        ELSE [stereo |-> FALSE, from71 |-> FALSE,
              processable |-> FALSE, channels |-> s.channels]

analyze_surround(p, surround_idx, force_stereo) ==
    IF surround_idx = NoIdx
    THEN [stereo |-> FALSE, from71 |-> FALSE, processable |-> FALSE, channels |-> 0]
    ELSE analyze_stream(StreamAt(p, surround_idx),
                        SelectSeq(p, LAMBDA o : IsAudio(o) /\ o.index # surround_idx),
                        force_stereo)

needs_channelmap_fix(p, surround_idx) ==
    /\ surround_idx # NoIdx
    /\ LET s == StreamAt(p, surround_idx)
           channel_layout == GetOr(s.channel_layout, "unknown")
       IN  (channel_layout = "unknown" \/ channel_layout = "") /\ s.channels = 6

\* ------------------------------------------------------------------------
\* build_ffmpeg_command: the emitted arguments.
\*   a -map argument:      MapStream(n) is "0:n", MapLabel(l) is "[l]"
\*   a filter of the graph: its input, its outputs, in the order emitted
\*   a metadata pair:      -metadata:s:a:<idx> <key>=<val>
\* ------------------------------------------------------------------------
MapStream(n) == [kind |-> "stream", idx |-> n, label |-> ""]
MapLabel(l)  == [kind |-> "label", idx |-> NoIdx, label |-> l]
Filter(src, op, outs) == [src |-> src, op |-> op, outs |-> outs]
Meta(i, k, v) == [idx |-> i, key |-> k, val |-> v]

surround_title(channels) ==
    IF channels = 8 THEN "7.1 Surround"
    ELSE IF channels = 6 THEN "5.1 Surround" ELSE "Surround"

IsEnglishCompatible(s) == Lang(s) = "eng" \/ Lang(s) = "" \/ Lang(s) = "und"

\* create_51_filter: the 7.1 -> 5.1 pan, followed by an asplit when the
\* stereo track is derived from the same 5.1 signal (lines 1411-1418)
create_51_unsplit(src, should_create_stereo) ==
    << Filter(src, "pan=5.1", <<"surround_51">>) >>

create_51_filter(src, should_create_stereo) ==
    IF should_create_stereo
    THEN << Filter(src, "pan=5.1", <<"surround_51_tmp">>),
            Filter(MapLabel("surround_51_tmp"), "asplit=2", <<"surround_51", "for_stereo">>) >>
    ELSE << Filter(src, "pan=5.1", <<"surround_51">>) >>

\* the surround branch: original surround, derived 5.1, derived stereo
tracks_of(a, fix, surround_idx, force_stereo) ==
    LET src == IF fix THEN MapLabel("fixed_surround") ELSE MapStream(surround_idx)
        fixFilters == IF fix
                      THEN << Filter(MapStream(surround_idx), "channelmap", <<"fixed_surround">>) >>
                      ELSE << >>
        origMaps   == << src >>
        origLabels == << Meta(0, "title", surround_title(a.channels)),
                         Meta(0, "language", "eng") >>
        f51Filters == IF a.from71 THEN create_51_filter(src, a.stereo) ELSE << >>
        f51Maps    == IF a.from71 THEN << MapLabel("surround_51") >> ELSE << >>
        f51Labels  == IF a.from71
                      THEN << Meta(1, "title", "5.1 Surround"), Meta(1, "language", "eng") >>
                      ELSE << >>
        next_audio_idx == IF a.from71 THEN 2 ELSE 1
        stereo_src == IF a.from71
                      THEN (IF a.stereo THEN MapLabel("for_stereo") ELSE MapLabel("surround_51"))
                      ELSE src
        stFilters  == IF a.stereo
                      THEN << Filter(stereo_src, "pan=stereo,acompressor", <<"aout">>) >>
                      ELSE << >>
        stMaps     == IF a.stereo THEN << MapLabel("aout") >> ELSE << >>
        stLabels   == IF a.stereo
                      THEN << Meta(next_audio_idx, "title",
                                   IF force_stereo THEN FORCE_STEREO_TITLE
                                                   ELSE ENHANCED_STEREO_TITLE),
                              Meta(next_audio_idx, "language", "eng") >>
                      ELSE << >>
    IN  [maps    |-> origMaps \o f51Maps \o stMaps,
         labels  |-> origLabels \o f51Labels \o stLabels,
         filters |-> fixFilters \o f51Filters \o stFilters]

surround_tracks(p, surround_idx, force_stereo) ==
    tracks_of(analyze_surround(p, surround_idx, force_stereo),
              needs_channelmap_fix(p, surround_idx), surround_idx, force_stereo)

\* the existing stereo track mapped when a surround was selected but no
\* stereo was derived from it
existing_stereo_tracks(p, from71) ==
    LET k == FirstPos(p, LAMBDA s : IsAudio(s) /\ s.channels = 2 /\ IsEnglishCompatible(s))
        current_audio_idx == IF from71 THEN 2 ELSE 1
    IN  IF k = 0 THEN [maps |-> << >>, labels |-> << >>]
        ELSE [maps   |-> << MapStream(p[k].index) >>,
              labels |-> << Meta(current_audio_idx, "title", STANDARD_STEREO_TITLE),
                            Meta(current_audio_idx, "language", "eng") >>]

\* no surround selected: the first English or unlabeled audio stream
fallback_tracks_last(p) ==
    LET c == { i \in Pos(p) : IsAudio(p[i]) /\ IsEnglishCompatible(p[i]) }
        k == IF c = {} THEN 0 ELSE CHOOSE i \in c : \A j \in c : j <= i
    IN  IF k = 0 THEN [maps |-> << >>, labels |-> << >>]
        ELSE [maps   |-> << MapStream(p[k].index) >>,
              labels |-> << Meta(0, "title", STANDARD_STEREO_TITLE),
                            Meta(0, "language", "eng") >>]

fallback_tracks(p) ==
    LET k == FirstPos(p, LAMBDA s : IsAudio(s) /\ IsEnglishCompatible(s))
    IN  IF k = 0 THEN [maps |-> << >>, labels |-> << >>]
        ELSE [maps   |-> << MapStream(p[k].index) >>,
              labels |-> << Meta(0, "title", STANDARD_STEREO_TITLE),
                            Meta(0, "language", "eng") >>]

\* the subtitle -map arguments: forced or English text subtitles; a PGS
\* stream is left to extract_pgs_subtitles (lines 1205-1221, 1513-1522)
subtitle_maps(p) ==
    { p[i].index : i \in { j \in Pos(p) :
          /\ IsSubtitle(p[j])
          /\ p[j].codec_name \in TEXT_SUBTITLE_CODECS
          /\ (p[j].forced \/ Lang(p[j]) = "eng") } }

\* subtitle_stream_counter when the loop of line 1197 reaches position j:
\* the text and PGS subtitle streams before it (lines 1218, 1221)
subtitle_stream_counter(p, j) ==
    Cardinality({ i \in 1..(j - 1) :
        IsSubtitle(p[i]) /\ (p[i].codec_name \in TEXT_SUBTITLE_CODECS \/ IsPgs(p[i])) })

\* the K of the -metadata:s:s:K language=eng arguments (lines 1211-1212)
subtitle_lang_metadata(p) ==
    { subtitle_stream_counter(p, j) :
          j \in { i \in Pos(p) : /\ IsSubtitle(p[i])
                                 /\ p[i].codec_name \in TEXT_SUBTITLE_CODECS
                                 /\ Lang(p[i]) = "" } }

\* the output subtitle index of the mapped input stream idx: its place in
\* list(set(forced_subs + eng_subs)), which for the stream indexes of a
\* probe is their ascending order (lines 1517-1522)
sub_idx(p, idx) == Cardinality({ n \in subtitle_maps(p) : n < idx })

\* per-output-stream codec arguments: -c:a:N / -b:a:N / -q:a:N / -ch_layout:a:N
normalize_layout(l) ==
    IF l = "5.1(side)" THEN "5.1" ELSE IF l = "7.1(wide)" THEN "7.1" ELSE l

audio_codec_arg(p, m, n) ==
    IF m.kind = "stream"
    THEN LET s == StreamAt(p, m.idx)
             original_layout == GetOr(s.channel_layout, "")
         IN  IF original_layout = "unknown" \/ original_layout = ""
             THEN IF s.channels = 6
                  THEN [idx |-> n, codec |-> "aac", rate |-> "b:a=192k", layout |-> Absent]
                  ELSE [idx |-> n, codec |-> "copy", rate |-> Absent, layout |-> Absent]
             ELSE [idx |-> n, codec |-> "aac", rate |-> "b:a=192k",
                   layout |-> normalize_layout(original_layout)]
    ELSE IF m.label = "aout"
    THEN [idx |-> n, codec |-> "aac", rate |-> "q:a=2", layout |-> "stereo"]
    ELSE [idx |-> n, codec |-> "aac", rate |-> "b:a=192k",
          layout |-> IF m.label = "surround_51" THEN "5.1" ELSE Absent]

command_of(p, surround_idx, filter_complex, audio_maps, audio_labels) ==
    [surround_idx   |-> surround_idx,
     filter_complex |-> filter_complex,
     audio_maps     |-> audio_maps,
     audio_labels   |-> audio_labels,
     subtitle_maps  |-> subtitle_maps(p),
     subtitle_lang_metadata |-> subtitle_lang_metadata(p),
     audio_codec_args |-> [n \in Pos(audio_maps) |->
                              audio_codec_arg(p, audio_maps[n], n - 1)],
     has_audio      |-> Len(audio_maps) > 0]

build_from(p, surround_idx, a, st, ex, fb) ==
    IF surround_idx = NoIdx
    THEN command_of(p, surround_idx, << >>, fb.maps, fb.labels)
    ELSE IF a.stereo
    THEN command_of(p, surround_idx, st.filters, st.maps, st.labels)
    ELSE command_of(p, surround_idx, st.filters, st.maps \o ex.maps, st.labels \o ex.labels)

existing_for(p, a) == existing_stereo_tracks(p, a.from71)

build_with(p, force_stereo, surround_idx) ==
    build_from(p, surround_idx,
               analyze_surround(p, surround_idx, force_stereo),
               surround_tracks(p, surround_idx, force_stereo),
               existing_for(p, analyze_surround(p, surround_idx, force_stereo)),
               fallback_tracks(p))

build_ffmpeg_command(p, force_stereo) ==
    build_with(p, force_stereo, select_surround(p))

\* ------------------------------------------------------------------------
\* The encoder (ffmpeg run by subprocess.run): the streams of the file it
\* writes for the emitted arguments, read from the real input streams.
\* ------------------------------------------------------------------------
ArgsValidFor(real, args) ==
    \A n \in Pos(args.audio_maps) :
        LET m == args.audio_maps[n]
        IN  m.kind = "stream" =>
                \E i \in Pos(real) : real[i].index = m.idx /\ IsAudio(real[i])

LabelVal(args, n, k) ==
    LET i == FirstPos(args.audio_labels, LAMBDA a : a.idx = n /\ a.key = k)
    IN  IF i = 0 THEN Absent ELSE args.audio_labels[i].val

encoder_output(real, args) ==
    << VideoStream(0, "h264", 1920, 1080) >> \o
    [n \in Pos(args.audio_maps) |->
        LET m == args.audio_maps[n]
            c == args.audio_codec_args[n]
            s == IF m.kind = "stream" THEN StreamAt(real, m.idx) ELSE real[1]
            ch == IF m.kind = "stream" THEN s.channels
                  ELSE IF m.label = "aout" THEN 2 ELSE 6
            codec == IF c.codec = "copy" THEN s.codec_name ELSE "aac"
            layout == IF c.layout # Absent THEN c.layout
                      ELSE IF m.kind = "stream" THEN s.channel_layout ELSE "5.1"
        IN  AudioStream(n, codec, ch, layout,
                        LabelVal(args, n - 1, "language"), LabelVal(args, n - 1, "title"))]

\* ------------------------------------------------------------------------
\* transcode_file: the skip decision for a video probe (lines 1817-1909)
\* ------------------------------------------------------------------------
VIDEO_EXTS == {".mkv", ".mp4", ".avi", ".mov", ".wmv", ".flv", ".m2ts"}
AUDIO_EXTS == {".flac", ".wav", ".aiff", ".ape", ".wv", ".m4a", ".ogg", ".opus", ".wma"}

video_decision(p, ext, force_stereo) ==
    LET au == SelectSeq(p, IsAudio)
        vpos == FirstPos(p, LAMBDA s : s.codec_type = "video")
        vcodec == IF vpos = 0 THEN Absent ELSE p[vpos].codec_name
        all_aac == \A i \in Pos(au) : au[i].codec_name = "aac"
        has_stereo == \E i \in Pos(au) : au[i].channels = 2
        has_51 == \E i \in Pos(au) : au[i].channels = 6
        has_71 == \E i \in Pos(au) : au[i].channels = 8
        has_processable_surround ==
            \E i \in Pos(au) : au[i].channels \in {6, 8}
                               /\ GetOr(au[i].channel_layout, "unknown") # "unknown"
        has_enhanced_stereo ==
            \E i \in Pos(au) : au[i].channels = 2 /\ TitleHasCurrentSettings(Title(au[i]))
        needs_stereo_track == has_processable_surround /\ (~has_enhanced_stereo \/ force_stereo)
        needs_51_from_71 == has_71 /\ ~has_51 /\ has_processable_surround
        has_non_english_audio ==
            \E i \in Pos(au) : Lang(au[i]) # "" /\ Lang(au[i]) # "eng" /\ Lang(au[i]) # "und"
        needs_audio_metadata_fix ==
            \E i \in Pos(au) : Lang(au[i]) = "" \/ Lang(au[i]) = "und"
    IN  [skip |-> /\ vcodec = "h264" /\ all_aac /\ ext \in {".mp4", ".mkv"}
                  /\ ~needs_stereo_track /\ ~needs_51_from_71
                  /\ ~needs_audio_metadata_fix /\ ~has_non_english_audio
                  /\ ~force_stereo,
         needs_stereo_track |-> needs_stereo_track,
         needs_51_from_71 |-> needs_51_from_71,
         needs_audio_metadata_fix |-> needs_audio_metadata_fix,
         has_non_english_audio |-> has_non_english_audio]

\* the skip decision for an audio probe (lines 1929-1936)
audio_decision(p, ext) ==
    LET apos == FirstPos(p, IsAudio)
        acodec == IF apos = 0 THEN Absent ELSE p[apos].codec_name
    IN  acodec = "mp3" /\ ext = ".mp3"

\* the resolution check of the skip decision (lines 1886-1902) and the
\* decision with the downgrade_resolution flag (lines 1905-1909)
needs_resolution_downgrade(p, downgrade_resolution) ==
    LET vpos == FirstPos(p, LAMBDA s : s.codec_type = "video")
    IN  /\ downgrade_resolution
        /\ vpos > 0
        /\ (p[vpos].height > 1080 \/ p[vpos].width > 1920)

skip_decision(p, ext, force_stereo, downgrade_resolution) ==
    /\ video_decision(p, ext, force_stereo).skip
    /\ ~needs_resolution_downgrade(p, downgrade_resolution)

\* ------------------------------------------------------------------------
\* update_filename_resolution (lines 1014-1058).  The stem of a file name
\* is the sequence of its words (runs of word characters, where \b falls)
\* and of the separators between them, alternating; re.IGNORECASE is the
\* membership of both spellings in the word sets.
\* ------------------------------------------------------------------------
MaxWords == 3            \* words per generated file name
TARGET_RESOLUTION == "1080p"

\* RESOLUTION_PATTERNS (lines 357-366)
IsUhdWord(w) == w \in {"4K", "4k", "UHD", "uhd", "2160", "2160p"}
Is1440Word(w) == w \in {"1440", "1440p"}
IsHighResWord(w) == w \in {"1800", "1800p", "1620", "1620p", "1200", "1200p"}
IsContainerWord(w) == w \in {"mkv", "mp4", "avi"}
\* quality_patterns (line 1043)
IsQualityWord(w) == w \in {"WEBDL", "BluRay", "BDRip", "DVDRip", "HDRip"}

\* re.sub(r'\b(...)\b', replacement, name): every matching word
re_sub(name, Matches(_), replacement) ==
    [i \in Pos(name) |-> IF Matches(name[i]) THEN replacement ELSE name[i]]

\* re.sub(r'\.(4K|UHD|2160p?)\.(mkv|mp4|avi)', r'.1080p.\2', name)
re_sub_container(name) ==
    [i \in Pos(name) |->
        IF /\ i > 1 /\ i + 2 <= Len(name)
           /\ name[i - 1] = "." /\ IsUhdWord(name[i])
           /\ name[i + 1] = "." /\ IsContainerWord(name[i + 2])
        THEN "1080p" ELSE name[i]]

apply_patterns(name) ==
    re_sub_container(
        re_sub(re_sub(re_sub(name, IsUhdWord, TARGET_RESOLUTION),
                      Is1440Word, TARGET_RESOLUTION),
               IsHighResWord, TARGET_RESOLUTION))

\* no pattern matched: the token is inserted before the first quality
\* word, or appended (lines 1039-1050)
add_resolution(name) ==
    LET k == FirstPos(name, IsQualityWord)
    IN  IF k > 0
        THEN SubSeq(name, 1, k - 1) \o << TARGET_RESOLUTION, " " >> \o SubSeq(name, k, Len(name))
        ELSE name \o << " ", TARGET_RESOLUTION >>

updated_name(name) ==
    IF apply_patterns(name) = name THEN add_resolution(name) ELSE apply_patterns(name)

\* a path is its stem and its extension; the extension is split off and
\* put back (lines 1030, 1053)
update_filename_resolution(path) ==
    [stem |-> updated_name(path.stem), ext |-> path.ext]


\* ------------------------------------------------------------------------
\* find_and_rename_supporting_files (lines 1060-1115).  A directory entry
\* is its stem (words and separators, as above) and the dot-separated parts
\* that follow it: Movie 4K.eng.srt is stem << "Movie", " ", "4K" >> with
\* tail << "eng", "srt" >>.  A path handed to the function has a tail of
\* one part, its extension.
\* ------------------------------------------------------------------------
SUPPORTING_FILE_EXTENSIONS == {"srt", "vtt", "ass", "ssa", "sub", "idx", "sup", "txt", "nfo"}

Entry(stem, tail) == [stem |-> stem, tail |-> tail]

\* filename.startswith(original_base)
startswith(entry, original_base) ==
    /\ Len(original_base) <= Len(entry.stem)
    /\ SubSeq(entry.stem, 1, Len(original_base)) = original_base

\* new_base + filename[len(original_base):]
rebased(entry, original_base, new_base) ==
    Entry(new_base \o SubSeq(entry.stem, Len(original_base) + 1, Len(entry.stem)),
          entry.tail)

\* the entries the loop of lines 1087-1110 renames
supporting_files(listing, original_path) ==
    { e \in listing : /\ startswith(e, original_path.stem)
                       /\ e # original_path
                       /\ e.tail[Len(e.tail)] \in SUPPORTING_FILE_EXTENSIONS }

\* the directory after the call
find_and_rename_supporting_files(listing, original_path, new_path) ==
    IF original_path \notin listing THEN listing
    ELSE IF original_path.stem = new_path.stem THEN listing
    ELSE (listing \ supporting_files(listing, original_path))
         \cup { rebased(e, original_path.stem, new_path.stem) :
                    e \in supporting_files(listing, original_path) }

\* transcode_file, the names of a video conversion (lines 1759-1770,
\* 1886-1902): the final output is named after the downgraded resolution
\* only when the video is larger than 1080p (the generated videos are
\* 16:9, so the height decides)
final_stem_of(stem, ext, height, downgrade_resolution) ==
    IF downgrade_resolution /\ height > 1080
    THEN update_filename_resolution([stem |-> stem, ext |-> ext]).stem
    ELSE stem

\* transcode_file, lines 1987-1998, after a successful encode of a video:
\* the rename of the temp file puts the final output into the directory,
\* then the supporting files are renamed when the resolution was downgraded
after_conversion(listing, stem, ext, height, downgrade_resolution) ==
    LET final == Entry(final_stem_of(stem, ext, height, downgrade_resolution), << "mp4" >>)
        original_base_file == Entry(stem, << "mp4" >>)
        renamed == listing \cup {final}
    IN  IF downgrade_resolution /\ height > 1080 /\ final # original_base_file
        THEN find_and_rename_supporting_files(renamed, original_base_file, final)
        ELSE renamed

\* ------------------------------------------------------------------------
\* media_database.py: cache entries and lookups.  A fingerprint hash stands
\* for sha256(basename|size|mtime): the pair of the file name and the
\* version (size, mtime) of its content.
\* ------------------------------------------------------------------------
MEDIA_DATABASE_VERSION == "1.0.0"
None == "<None>"
EmptyDict == << >>
NoProbe == << >>                          \* probe is None
NoFingerprint == [name |-> None, ver |-> 0]   \* get_file_fingerprint returned None

DictPut(d, k, v) == [x \in DOMAIN d \cup {k} |-> IF x = k THEN v ELSE d[x]]
DictDel(d, k) == [x \in DOMAIN d \ {k} |-> d[x]]
HasKey(d, k) == k \in DOMAIN d

\* store_probe: the entry built from a probe (lines 233-312)
probe_entry(p, action) ==
    LET au == SelectSeq(p, IsAudio)
        vpos == FirstPos(p, LAMBDA s : s.codec_type = "video")
    IN  [codec_video |-> IF vpos = 0 THEN None ELSE p[vpos].codec_name,
         width |-> IF vpos = 0 THEN None ELSE p[vpos].width,
         height |-> IF vpos = 0 THEN None ELSE p[vpos].height,
         codec_audio |-> IF Len(au) = 0 THEN None ELSE au[1].codec_name,
         audio_channels |-> IF Len(au) = 0 THEN 0 ELSE au[1].channels,
         audio_layout |-> IF Len(au) = 0 THEN "" ELSE GetOr(au[1].channel_layout, ""),
         action |-> action,
         processing_version |-> MEDIA_DATABASE_VERSION,
         conversion_count |-> 0,
         processing_error |-> Absent,
         last_processed |-> Absent]

\* has_cached_probe on the loaded cache (lines 112-130)
has_cached_probe(fingerprint, cache_data) ==
    /\ fingerprint # NoFingerprint
    /\ cache_data # EmptyDict
    /\ HasKey(cache_data, fingerprint)
    /\ cache_data[fingerprint].codec_video # None

\* get_cached_probe on the loaded cache (lines 142-196): the probe is
\* rebuilt from the entry with one video and one audio stream, untagged
get_cached_probe(fingerprint, cache_data) ==
    IF fingerprint = NoFingerprint \/ cache_data = EmptyDict
       \/ ~HasKey(cache_data, fingerprint)
    THEN NoProbe
    ELSE LET entry == cache_data[fingerprint]
         IN  (IF entry.codec_video # None
              THEN << VideoStream(0, entry.codec_video, entry.width, entry.height) >> ELSE << >>)
             \o
             (IF entry.codec_audio # None
              THEN << AudioStream(1, entry.codec_audio, entry.audio_channels,
                                  entry.audio_layout, Absent, Absent) >>
              ELSE << >>)

\* get_cached_action on the loaded cache (lines 208-218)
get_cached_action(fingerprint, cache_data) ==
    IF fingerprint = NoFingerprint \/ cache_data = EmptyDict
       \/ ~HasKey(cache_data, fingerprint)
    THEN None
    ELSE cache_data[fingerprint].action

\* update_after_conversion: whether the function saves, and the cache
\* contents it saves (lines 341-427)
converted_entry(entry) ==
    [entry EXCEPT !.last_processed = "now",
                  !.conversion_count = entry.conversion_count + 1,
                  !.action = "skip",
                  !.processing_error = None]

update_after_conversion(cache_data, original, new_fingerprint, original_exists, success, error_message) ==
    IF original = NoFingerprint \/ ~HasKey(cache_data, original)
    THEN [save |-> FALSE, data |-> cache_data]
    ELSE LET entry == cache_data[original]
         IN  [save |-> TRUE,
              data |->
                 IF ~success
                 THEN DictPut(cache_data, original,
                              [entry EXCEPT !.processing_error = error_message,
                                            !.last_processed = "now"])
                 ELSE IF new_fingerprint # NoFingerprint
                 THEN DictPut(DictDel(cache_data, original), new_fingerprint,
                              converted_entry(entry))
                 ELSE IF ~original_exists
                 THEN DictDel(cache_data, original)
                 ELSE DictPut(cache_data, original, converted_entry(entry))]

\* cleanup_missing_files: the cache contents it leaves (lines 564-575);
\* exists is the set of paths for which os.path.exists answers True
cleanup_missing_files(cache_data, exists) ==
    LET to_remove == { fingerprint_hash \in DOMAIN cache_data :
                          /\ cache_data[fingerprint_hash].file_path # None
                          /\ cache_data[fingerprint_hash].file_path \notin exists }
    IN  [fingerprint_hash \in DOMAIN cache_data \ to_remove |-> cache_data[fingerprint_hash]]

\* ------------------------------------------------------------------------
\* Paths of the media directory.  os.path.splitext is a table over them.
\* ------------------------------------------------------------------------
PathTable ==
    { [base |-> "movie", ext |-> e] : e \in {".mkv", ".mp4", ".txt", ".flac", ".mp3"} }
    \cup { [base |-> "movie.tmp", ext |-> e] : e \in {".mp4", ".mp3"} }
    \cup { [base |-> "other", ext |-> ".mkv"] }
    \cup { [base |-> "movie.eng", ext |-> ".sup"], [base |-> "movie.pgs_2", ext |-> ".sup"] }
AllPaths == { r.base \o r.ext : r \in PathTable }
splitext(path) == CHOOSE r \in PathTable : r.base \o r.ext = path

\* extract_pgs_subtitles: the sidecar written for a PGS stream of the input
\* (lines 1134-1148)
sup_filename(input_file, s) ==
    LET lang == GetOr(s.language, "unknown")
        suffix == IF s.forced
                  THEN (IF lang # "unknown" THEN ".forced." \o lang \o ".sup"
                                            ELSE ".forced.sup")
                  ELSE (IF lang # "unknown" THEN "." \o lang \o ".sup"
                                            ELSE ".pgs_" \o ToString(s.index) \o ".sup")
    IN  splitext(input_file).base \o suffix

\* ------------------------------------------------------------------------
\* Files.  A lock sidecar is empty between open(path, 'x') and json.dump;
\* age is time.time() minus its timestamp.  A cache file (or its .tmp) is
\* complete when it holds one whole JSON document; open_by are the writers
\* that hold it open, dirty says it was written since it was last truncated.
\* ------------------------------------------------------------------------
NoFile == [exists |-> FALSE]
MediaFile(p, v, done, by) ==
    [exists |-> TRUE, probe |-> p, ver |-> v, complete |-> done, writer |-> by,
     age |-> 0]
LockData(w, written, age) ==
    [exists |-> TRUE, lock_id |-> w, written |-> written, age |-> age]
CacheData(d, done, openers, dirty) ==
    [exists |-> TRUE, data |-> d, complete |-> done, open_by |-> openers, dirty |-> dirty]

Workers == {"w1", "w2"}
VerOf(w) == IF w = "w1" THEN 1 ELSE 2     \* mtime/size of the file w's encoder writes

\* FileLock: the executor's timeout and the stale threshold, in seconds
EXECUTOR_TIMEOUT == 1800
STALE_MAX_AGE == 21600
\* cleanup_orphaned_temp_files: the age, in seconds since the last write, past
\* which a temp file counts as orphaned
ORPHAN_MIN_AGE == 3600
\* the ages the clock brings a lock to: fresh, past the timeout, stale
AgeSteps == << 0, EXECUTOR_TIMEOUT + 1, STALE_MAX_AGE + 1 >>

\* ------------------------------------------------------------------------
\* State
\* ------------------------------------------------------------------------
VARIABLES
    lockFile,         \* the sidecar <input>.lock
    media,            \* the media files of the directory, by path
    cacheFile,        \* .mediabox_cache.json
    cacheTmp,         \* .mediabox_cache.json.tmp
    pc,               \* per worker process: the step it is at
    tf,               \* per worker process: the locals of its call
    unfinished_output_file,   \* per worker process: the module global
    encoder_runs,     \* per worker process: encoder invocations so far
    lookup,           \* per worker process: result of its last cache lookup
    scenario,         \* the input file and flags of this run
    b_probe,          \* SpecBuild: the probe handed to build_ffmpeg_command
    b_force_stereo,   \* SpecBuild: the force_stereo flag
    b_args,           \* SpecBuild: the returned arguments (NoArgs before the call)
    b_ext,            \* SpecSkip: the extension of the input file
    b_downgrade,      \* SpecSkip: the downgrade_resolution flag
    b_decision,       \* SpecSkip: the skip decision (NoDecision before it)
    n_path,           \* SpecName: the path handed to update_filename_resolution
    n_once,           \* SpecName: the path it returns (NoPath before the call)
    n_twice,          \* SpecName: the path it returns for its own result
    f_call,           \* the function specifications: the call, with its arguments
    f_ret             \* the function specifications: what the call returned

\* the variables of the function specifications
buildVars == << b_probe, b_force_stereo, b_args, b_ext, b_downgrade, b_decision,
                n_path, n_once, n_twice, f_call, f_ret >>
fsVars == << lockFile, media, cacheFile, cacheTmp >>
procVars == << pc, tf, unfinished_output_file, encoder_runs, lookup, scenario >>
vars == << fsVars, procVars, buildVars >>

NoArgs == [has_audio |-> Absent]
NoDecision == [decided |-> FALSE]
NoPath == [ext |-> Absent]
NoCall == [fn |-> "<None>"]
NoReturn == [returned |-> FALSE]

\* no function call is part of the run
BuildIdle ==
    /\ b_probe = NoProbe /\ b_force_stereo = FALSE /\ b_args = NoArgs
    /\ b_ext = Absent /\ b_downgrade = FALSE /\ b_decision = NoDecision
    /\ n_path = NoPath /\ n_once = NoPath /\ n_twice = NoPath
    /\ f_call = NoCall /\ f_ret = NoReturn

tf0 == [input_file |-> None, force_stereo |-> FALSE, fingerprint |-> NoFingerprint,
        probe |-> NoProbe, using_cache |-> FALSE, final |-> None, temp |-> None,
        cache_data |-> EmptyDict, ret |-> None, acquired |-> FALSE, outcome |-> None,
        wait |-> FALSE]
NoLookup == [fn |-> None, found |-> FALSE, file_present |-> FALSE,
             has_key |-> FALSE, processing_version |-> None]
NoScenario == [input_file |-> None, probe |-> NoProbe, force_stereo |-> FALSE]

IdleProcs ==
    /\ pc = [w \in Workers |-> "idle"]
    /\ tf = [w \in Workers |-> tf0]
    /\ unfinished_output_file = [w \in Workers |-> None]
    /\ encoder_runs = [w \in Workers |-> 0]
    /\ lookup = [w \in Workers |-> NoLookup]

Goto(w, label) == pc' = [pc EXCEPT ![w] = label]
SetTf(w, r) == tf' = [tf EXCEPT ![w] = r]

\* get_file_fingerprint: os.stat of the path (lines 84-100)
get_file_fingerprint(path) ==
    IF media[path].exists THEN [name |-> path, ver |-> media[path].ver]
    ELSE NoFingerprint

\* _load_cache: {} when the file is absent or does not parse (lines 47-55)
load_cache(f) == IF f.exists /\ f.complete THEN f.data ELSE EmptyDict

\* ------------------------------------------------------------------------
\* FileLock (file_lock.py).  Each action is one file-system access of the
\* calling process; pc holds the position between two accesses.
\* ------------------------------------------------------------------------
otherVars == << media, cacheFile, cacheTmp, unfinished_output_file,
                encoder_runs, lookup, scenario, buildVars >>

\* json.load of the sidecar succeeds
LockReadable == lockFile.exists /\ lockFile.written

\* _is_lock_stale: current_time - lock_time > self.timeout (lines 180-187)
is_lock_stale == lockFile.age > EXECUTOR_TIMEOUT

\* transcode_file is called (line 1723); acquire() starts its loop
Start(w) ==
    /\ pc[w] = "idle"
    /\ SetTf(w, [tf0 EXCEPT !.input_file = scenario.input_file,
                            !.force_stereo = scenario.force_stereo])
    /\ Goto(w, "acq_cleanup")
    /\ UNCHANGED << lockFile, otherVars >>

\* _cleanup_stale_lock, the read (lines 111-121, 125)
AcqCleanupRead(w) ==
    /\ pc[w] = "acq_cleanup"
    /\ IF ~lockFile.exists THEN Goto(w, "acq_exists")
       ELSE IF ~lockFile.written THEN Goto(w, "acq_cleanup_unlink")
       ELSE IF lockFile.age > STALE_MAX_AGE THEN Goto(w, "acq_cleanup_unlink")
       ELSE Goto(w, "acq_exists")
    /\ UNCHANGED << lockFile, tf, otherVars >>

\* _cleanup_stale_lock, the unlink (lines 122, 128); a failure is swallowed
AcqCleanupUnlink(w) ==
    /\ pc[w] = "acq_cleanup_unlink"
    /\ lockFile' = NoFile
    /\ Goto(w, "acq_exists")
    /\ UNCHANGED << tf, otherVars >>

\* acquire: if not self.lock_path.exists() (line 239)
AcqExists(w) ==
    /\ pc[w] = "acq_exists"
    /\ IF lockFile.exists THEN Goto(w, "acq_info") ELSE Goto(w, "acq_create")
    /\ UNCHANGED << lockFile, tf, otherVars >>

\* _try_create_lock: open(lock_path, 'x') (line 84); on failure the loop
\* continues (lines 248-250)
AcqCreate(w) ==
    /\ pc[w] = "acq_create"
    /\ IF lockFile.exists
       THEN /\ Goto(w, "acq_cleanup")
            /\ UNCHANGED lockFile
       ELSE /\ lockFile' = LockData(w, FALSE, 0)
            /\ Goto(w, "acq_write")
    /\ UNCHANGED << tf, otherVars >>

\* _try_create_lock: json.dump into the handle just opened (lines 85-93);
\* when the file was unlinked meanwhile the data goes to the orphaned inode
AcqWrite(w) ==
    /\ pc[w] = "acq_write"
    /\ IF lockFile.exists /\ lockFile.lock_id = w /\ ~lockFile.written
       THEN lockFile' = LockData(w, TRUE, 0)
       ELSE UNCHANGED lockFile
    /\ Goto(w, "acq_verify")
    /\ UNCHANGED << tf, otherVars >>

\* _verify_our_lock (lines 100-107) and the return True of line 244
AcqVerify(w) ==
    /\ pc[w] = "acq_verify"
    /\ IF LockReadable /\ lockFile.lock_id = w
       THEN /\ SetTf(w, [tf[w] EXCEPT !.acquired = TRUE])
            /\ Goto(w, "tf_begin")
       ELSE /\ Goto(w, "acq_cleanup")
            /\ UNCHANGED tf
    /\ UNCHANGED << lockFile, otherVars >>

\* acquire, the lock file exists and is not ours: wait=False returns False
\* (lines 258-259); wait=True sleeps (line 262) and goes on to line 264,
\* which reads the local lock_data that no statement has assigned yet
NotAcquired(w) ==
    IF tf[w].wait
    THEN /\ SetTf(w, [tf[w] EXCEPT !.outcome = "UnboundLocalError"])
         /\ Goto(w, "raised")
    ELSE /\ Goto(w, "tf_locked") /\ UNCHANGED tf

\* acquire, the else branch: get_lock_info -> is_locked, the read
\* (lines 253-259, 321-332)
AcqInfo(w) ==
    /\ pc[w] = "acq_info"
    /\ IF ~LockReadable
       THEN NotAcquired(w)
       ELSE IF is_lock_stale
       THEN /\ Goto(w, "acq_info_remove") /\ UNCHANGED tf
       ELSE IF lockFile.lock_id = w
       THEN /\ SetTf(w, [tf[w] EXCEPT !.acquired = TRUE])
            /\ Goto(w, "tf_begin")
       ELSE NotAcquired(w)
    /\ UNCHANGED << lockFile, otherVars >>

\* is_locked: _remove_lock_file of a lock past self.timeout (line 328);
\* get_lock_info returns None and acquire goes on as for a foreign lock
AcqInfoRemove(w) ==
    /\ pc[w] = "acq_info_remove"
    /\ lockFile' = NoFile
    /\ NotAcquired(w)
    /\ UNCHANGED otherVars

\* transcode_file, acquire returned False: get_lock_info again, the read
\* (lines 1729-1739)
TfLocked(w) ==
    /\ pc[w] = "tf_locked"
    /\ IF LockReadable /\ is_lock_stale
       THEN /\ Goto(w, "tf_locked_remove") /\ UNCHANGED tf
       ELSE /\ SetTf(w, [tf[w] EXCEPT !.outcome = "already_processing"])
            /\ Goto(w, "returned")
    /\ UNCHANGED << lockFile, otherVars >>

\* is_locked: _remove_lock_file (line 328), then the return of line 1739
TfLockedRemove(w) ==
    /\ pc[w] = "tf_locked_remove"
    /\ lockFile' = NoFile
    /\ SetTf(w, [tf[w] EXCEPT !.outcome = "already_processing"])
    /\ Goto(w, "returned")
    /\ UNCHANGED otherVars

\* release, the read: delete only when hostname and pid are ours
\* (lines 300-312)
TfRelease(w) ==
    /\ pc[w] = "tf_release"
    /\ IF LockReadable /\ lockFile.lock_id = w
       THEN Goto(w, "tf_release_unlink")
       ELSE Goto(w, "returned")
    /\ UNCHANGED << lockFile, tf, otherVars >>

\* release: _remove_lock_file (lines 189-197)
TfReleaseUnlink(w) ==
    /\ pc[w] = "tf_release_unlink"
    /\ lockFile' = NoFile
    /\ Goto(w, "returned")
    /\ UNCHANGED << tf, otherVars >>

\* Time passes.  The lock and cache steps take milliseconds; the 30-minute
\* and 6-hour marks are passed only while every process is idle, finished,
\* inside the encoder run, or between acquire() and the get_lock_info()
\* that reports who holds the lock.
Finished == {"returned", "raised", "exited"}
Quiet == \A w \in Workers : pc[w] \in {"idle", "tf_encoding", "tf_locked"} \cup Finished
Tick ==
    /\ Quiet
    /\ LockReadable
    /\ \E i \in 1..2 :
          /\ lockFile.age = AgeSteps[i]
          /\ lockFile' = [lockFile EXCEPT !.age = AgeSteps[i + 1]]
    /\ UNCHANGED << pc, tf, otherVars >>

\* ------------------------------------------------------------------------
\* get_media_files (media_update.py lines 564-600).  A file name is the
\* sequence of its dot-separated parts: movie.tmp.mp4 is
\* << "movie", "tmp", "mp4" >>.
\* ------------------------------------------------------------------------
\* str.lower() of the last part of the names used here
Lower(part) == IF part = "MKV" THEN "mkv" ELSE IF part = "MP4" THEN "mp4" ELSE part

\* filename.lower().endswith(exts)
endswith_any(filename, exts) ==
    Len(filename) >= 2 /\ ("." \o Lower(filename[Len(filename)])) \in exts

get_video_files(filenames) ==
    { f \in filenames : endswith_any(f, VIDEO_EXTS) }

get_audio_files(filenames) ==
    { f \in filenames : endswith_any(f, AUDIO_EXTS) /\ ~endswith_any(f, {".mp3"}) }

get_media_files(filenames, media_type) ==
    IF media_type = "video" THEN get_video_files(filenames)
    ELSE IF media_type = "audio" THEN get_audio_files(filenames)
    ELSE get_video_files(filenames) \cup get_audio_files(filenames)

\* ------------------------------------------------------------------------
\* MediaDatabase._save_cache (lines 57-66): open(temp, 'w'), json.dump,
\* os.rename.  Every caller uses the same temp path cache_file + '.tmp'.
\* ------------------------------------------------------------------------
dbOther == << lockFile, media, unfinished_output_file, encoder_runs, lookup,
              scenario, buildVars >>

\* open(temp_file, 'w'): create or truncate
SvOpen(w) ==
    /\ pc[w] = "sv_open"
    /\ cacheTmp' = IF cacheTmp.exists
                   THEN CacheData(EmptyDict, FALSE, cacheTmp.open_by \cup {w}, FALSE)
                   ELSE CacheData(EmptyDict, FALSE, {w}, FALSE)
    /\ Goto(w, "sv_write")
    /\ UNCHANGED << cacheFile, tf, dbOther >>

\* what a write through w's handle, from offset 0, leaves in the inode:
\* w's document; or, when another writer's document is already in it, its
\* bytes followed by the tail of the longer document (overlap)
Written(f, w, overlap) ==
    IF overlap THEN CacheData(EmptyDict, FALSE, f.open_by \ {w}, TRUE)
    ELSE CacheData(tf[w].cache_data, TRUE, f.open_by \ {w}, TRUE)

\* json.dump and close: the inode w opened is still at the temp path, or
\* was renamed over the cache file by another writer, or is gone
SvWrite(w) ==
    /\ pc[w] = "sv_write"
    /\ \E overlap \in BOOLEAN :
          IF cacheTmp.exists /\ w \in cacheTmp.open_by
          THEN /\ overlap => cacheTmp.dirty
               /\ cacheTmp' = Written(cacheTmp, w, overlap)
               /\ UNCHANGED cacheFile
          ELSE IF cacheFile.exists /\ w \in cacheFile.open_by
          THEN /\ overlap => cacheFile.dirty
               /\ cacheFile' = Written(cacheFile, w, overlap)
               /\ UNCHANGED cacheTmp
          ELSE /\ ~overlap
               /\ UNCHANGED << cacheFile, cacheTmp >>
    /\ Goto(w, "sv_rename")
    /\ UNCHANGED << tf, dbOther >>

\* os.rename(temp_file, cache_file); a missing temp raises IOError, which
\* is caught and reported (lines 64-66)
SvRename(w) ==
    /\ pc[w] = "sv_rename"
    /\ IF cacheTmp.exists
       THEN /\ cacheFile' = cacheTmp
            /\ cacheTmp' = NoFile
       ELSE UNCHANGED << cacheFile, cacheTmp >>
    /\ Goto(w, tf[w].ret)
    /\ SetTf(w, [tf[w] EXCEPT !.cache_data = EmptyDict, !.ret = None])
    /\ UNCHANGED dbOther

\* store_probe: load the directory's cache and put the entry (lines 314-319)
SpLoad(w) ==
    /\ pc[w] = "sp_load"
    /\ SetTf(w, [tf[w] EXCEPT !.cache_data =
                    DictPut(load_cache(cacheFile), tf[w].fingerprint,
                            probe_entry(tf[w].probe, "pending"))])
    /\ Goto(w, "sv_open")
    /\ UNCHANGED << cacheFile, cacheTmp, dbOther >>

\* ------------------------------------------------------------------------
\* transcode_file (media_update.py lines 1723-2065), after the lock
\* ------------------------------------------------------------------------
tfOther == << lockFile, cacheFile, cacheTmp, encoder_runs, lookup, scenario, buildVars >>

Ext(w) == splitext(tf[w].input_file).ext
IsVideoInput(w) == Ext(w) \in VIDEO_EXTS
TargetExt(w) == IF IsVideoInput(w) THEN ".mp4" ELSE ".mp3"

Return(w, outcome) ==
    /\ SetTf(w, [tf[w] EXCEPT !.outcome = outcome, !.probe = NoProbe])
    /\ Goto(w, "returned")

\* lines 1745-1785 and the os.stat of get_file_fingerprint (line 1795):
\* an unsupported extension returns; else the output paths are fixed and
\* the temp path is registered in the module global
TfBegin(w) ==
    /\ pc[w] = "tf_begin"
    /\ IF Ext(w) \notin VIDEO_EXTS \cup AUDIO_EXTS
       THEN /\ Return(w, "unsupported")
            /\ UNCHANGED unfinished_output_file
       ELSE LET base == splitext(tf[w].input_file).base
                temp == base \o ".tmp" \o TargetExt(w)
            IN  /\ SetTf(w, [tf[w] EXCEPT !.final = base \o TargetExt(w),
                                          !.temp = temp,
                                          !.fingerprint = get_file_fingerprint(tf[w].input_file)])
                /\ unfinished_output_file' = [unfinished_output_file EXCEPT ![w] = temp]
                /\ Goto(w, "tf_has_cached")
    /\ UNCHANGED << media, tfOther >>

\* has_cached_probe: one load of the cache file (line 1796)
TfHasCached(w) ==
    /\ pc[w] = "tf_has_cached"
    /\ IF has_cached_probe(tf[w].fingerprint, load_cache(cacheFile))
       THEN Goto(w, "tf_get_cached")
       ELSE Goto(w, "tf_probe")
    /\ UNCHANGED << tf, media, unfinished_output_file, tfOther >>

\* get_cached_probe: a second load of the cache file (lines 1797-1801)
TfGetCached(w) ==
    /\ pc[w] = "tf_get_cached"
    /\ LET probe == get_cached_probe(tf[w].fingerprint, load_cache(cacheFile))
       IN  IF probe # NoProbe
           THEN /\ SetTf(w, [tf[w] EXCEPT !.probe = probe, !.using_cache = TRUE])
                /\ Goto(w, "tf_decide")
           ELSE /\ UNCHANGED tf
                /\ Goto(w, "tf_probe")
    /\ UNCHANGED << media, unfinished_output_file, tfOther >>

\* ffmpeg.probe of the input (line 1805): ffmpeg.Error is re-raised
\* (line 1944); else store_probe follows when there is a fingerprint
TfProbe(w) ==
    /\ pc[w] = "tf_probe"
    /\ LET f == media[tf[w].input_file]
       IN  IF ~f.exists \/ ~f.complete
           THEN /\ SetTf(w, [tf[w] EXCEPT !.outcome = "probe_error"])
                /\ Goto(w, "raised")
           ELSE /\ SetTf(w, [tf[w] EXCEPT !.probe = f.probe, !.ret = "tf_decide"])
                /\ IF tf[w].fingerprint # NoFingerprint
                   THEN Goto(w, "sp_load") ELSE Goto(w, "tf_decide")
    /\ UNCHANGED << media, unfinished_output_file, tfOther >>

\* the command transcode_file runs for its probe (lines 1959-1970)
CommandOf(w) == build_ffmpeg_command(tf[w].probe, tf[w].force_stereo)

\* the skip decision (lines 1817-1936)
TfDecide(w) ==
    /\ pc[w] = "tf_decide"
    /\ IF IsVideoInput(w)
       THEN IF video_decision(tf[w].probe, Ext(w), tf[w].force_stereo).skip
            THEN Return(w, "skipped")
            ELSE /\ Goto(w, "tf_extract") /\ UNCHANGED tf
       ELSE IF audio_decision(tf[w].probe, Ext(w))
            THEN Return(w, "skipped")
            ELSE /\ Goto(w, "tf_encode") /\ UNCHANGED tf
    /\ UNCHANGED << media, unfinished_output_file, tfOther >>

\* the PGS streams of w's probe that ffmpeg can copy out of the input: the
\* file is readable and has a PGS stream at that index
Extractable(w) ==
    LET f == media[tf[w].input_file]
    IN  { i \in Pos(tf[w].probe) :
            /\ IsPgs(tf[w].probe[i])
            /\ f.exists /\ f.complete
            /\ \E j \in Pos(f.probe) : f.probe[j].index = tf[w].probe[i].index
                                        /\ IsPgs(f.probe[j]) }

\* extract_pgs_subtitles for a video (lines 1952-1956), then
\* build_ffmpeg_command and the has_audio test (lines 1959-1965)
TfExtractPgs(w) ==
    /\ pc[w] = "tf_extract"
    /\ media' = [x \in AllPaths |->
                    IF \E i \in Extractable(w) : sup_filename(tf[w].input_file, tf[w].probe[i]) = x
                    THEN MediaFile(<< tf[w].probe[CHOOSE i \in Extractable(w) :
                                         sup_filename(tf[w].input_file, tf[w].probe[i]) = x] >>,
                                   VerOf(w), TRUE, w)
                    ELSE media[x]]
    /\ IF ~CommandOf(w).has_audio
       THEN Return(w, "no_english_audio")
       ELSE /\ Goto(w, "tf_encode") /\ UNCHANGED tf
    /\ UNCHANGED << unfinished_output_file, tfOther >>

\* what the encoder writes for w's command, from the real input streams
OutputOf(w) ==
    IF IsVideoInput(w)
    THEN encoder_output(media[tf[w].input_file].probe, CommandOf(w))
    ELSE << AudioStream(0, "mp3", 2, "stereo", Absent, Absent) >>

\* subprocess.run(cmd) starts ffmpeg (line 1976): with -y it creates or
\* truncates the temp output.  An input that is gone or unreadable, or a
\* -map of a stream the file does not have, makes it exit nonzero at once.
TfEncodeStart(w) ==
    /\ pc[w] = "tf_encode"
    /\ encoder_runs' = [encoder_runs EXCEPT ![w] = @ + 1]
    /\ LET f == media[tf[w].input_file]
       IN  IF ~f.exists \/ ~f.complete
              \/ (IsVideoInput(w) /\ ~ArgsValidFor(f.probe, CommandOf(w)))
           THEN /\ SetTf(w, [tf[w] EXCEPT !.outcome = "encoder_failed"])
                /\ Goto(w, "tf_release")
                /\ UNCHANGED media
           ELSE /\ media' = [media EXCEPT ![tf[w].temp] =
                                MediaFile(OutputOf(w), VerOf(w), FALSE, w)]
                /\ Goto(w, "tf_encoding")
                /\ UNCHANGED tf
    /\ UNCHANGED << unfinished_output_file, lockFile, cacheFile, cacheTmp,
                    lookup, scenario, buildVars >>

\* the encoder run ends (lines 1976-1980, 2055-2060): exit 0, a nonzero
\* exit, or an exception out of subprocess.run
TfEncodeEnd(w) ==
    /\ pc[w] = "tf_encoding"
    /\ \E result \in {"ok", "nonzero", "exception"} :
          IF result = "ok"
          THEN /\ media' = IF media[tf[w].temp].exists /\ media[tf[w].temp].writer = w
                           THEN [media EXCEPT ![tf[w].temp].complete = TRUE]
                           ELSE media
               /\ unfinished_output_file' = [unfinished_output_file EXCEPT ![w] = None]
               /\ Goto(w, "tf_remove_final")
               /\ UNCHANGED tf
          ELSE /\ SetTf(w, [tf[w] EXCEPT !.outcome =
                               IF result = "nonzero" THEN "encoder_failed" ELSE "exception"])
               /\ Goto(w, "tf_release")
               /\ UNCHANGED << media, unfinished_output_file >>
    /\ UNCHANGED tfOther

\* if os.path.exists(final_output_file): os.remove (lines 1985-1986)
TfRemoveFinal(w) ==
    /\ pc[w] = "tf_remove_final"
    /\ media' = [media EXCEPT ![tf[w].final] = NoFile]
    /\ Goto(w, "tf_rename")
    /\ UNCHANGED << tf, unfinished_output_file, tfOther >>

\* os.rename(output_file, final_output_file) (line 1987); a failure is
\* reported and the function returns through finally (lines 2000-2003).
\* The database update follows for a video input; for an audio input the
\* flags read at lines 2018-2027 are unbound, the NameError is caught at
\* line 2038 and update_after_conversion is not called.
TfRename(w) ==
    /\ pc[w] = "tf_rename"
    /\ \E oserror \in BOOLEAN :
          IF media[tf[w].temp].exists /\ ~oserror
          THEN /\ media' = [media EXCEPT ![tf[w].final] = media[tf[w].temp],
                                         ![tf[w].temp] = NoFile]
               /\ IF tf[w].fingerprint # NoFingerprint /\ IsVideoInput(w)
                  THEN Goto(w, "uc_load") ELSE Goto(w, "tf_remove_source")
               /\ UNCHANGED tf
          ELSE /\ SetTf(w, [tf[w] EXCEPT !.outcome = "rename_failed"])
               /\ Goto(w, "tf_release")
               /\ UNCHANGED media
    /\ UNCHANGED << unfinished_output_file, tfOther >>

\* update_after_conversion(fingerprint, new_filepath=final_output_file,
\* success=True): the load and the stats (lines 2031-2036)
UcLoad(w) ==
    /\ pc[w] = "uc_load"
    /\ LET r == update_after_conversion(
                    load_cache(cacheFile), tf[w].fingerprint,
                    get_file_fingerprint(tf[w].final),
                    media[tf[w].input_file].exists, TRUE, None)
       IN  IF r.save
           THEN /\ SetTf(w, [tf[w] EXCEPT !.cache_data = r.data,
                                          !.ret = "tf_remove_source"])
                /\ Goto(w, "sv_open")
           ELSE /\ Goto(w, "tf_remove_source")
                /\ UNCHANGED tf
    /\ UNCHANGED << media, unfinished_output_file, tfOther >>

\* os.remove(input_file) when it differs from the final output; an
\* exception of os.remove is reported and swallowed (lines 2047-2054);
\* then finally
TfRemoveSourceAlways(w) ==
    /\ pc[w] = "tf_remove_source"
    /\ media' = [media EXCEPT ![tf[w].input_file] = NoFile]
    /\ SetTf(w, [tf[w] EXCEPT !.outcome = "success", !.probe = NoProbe])
    /\ Goto(w, "tf_release")
    /\ UNCHANGED << unfinished_output_file, tfOther >>

TfRemoveSource(w) ==
    /\ pc[w] = "tf_remove_source"
    /\ \E oserror \in BOOLEAN :
          media' = IF tf[w].input_file # tf[w].final /\ ~oserror
                   THEN [media EXCEPT ![tf[w].input_file] = NoFile]
                   ELSE media
    /\ SetTf(w, [tf[w] EXCEPT !.outcome = "success", !.probe = NoProbe])
    /\ Goto(w, "tf_release")
    /\ UNCHANGED << unfinished_output_file, tfOther >>

\* the process ends after transcode_file returned or raised: atexit runs
\* cleanup_unfinished_file (lines 321-330)
ProcessExit(w) ==
    /\ pc[w] \in {"returned", "raised"}
    /\ media' = IF unfinished_output_file[w] # None
                THEN [media EXCEPT ![unfinished_output_file[w]] = NoFile]
                ELSE media
    /\ Goto(w, "exited")
    /\ UNCHANGED << tf, unfinished_output_file, tfOther >>

\* ------------------------------------------------------------------------
\* Spec: the worker processes call transcode_file on the same input file
\* ------------------------------------------------------------------------
ProbeCompliant == << VideoStream(0, "h264", 1920, 1080),
                     AudioStream(1, "aac", 2, "stereo", "eng", Absent) >>
ProbeSurround  == << VideoStream(0, "hevc", 1920, 1080),
                     AudioStream(1, "ac3", 6, "5.1(side)", "eng", Absent) >>
ProbeFrench    == << VideoStream(0, "h264", 1920, 1080),
                     AudioStream(1, "aac", 2, "stereo", "fra", Absent) >>
ProbeCompliantPgs == ProbeCompliant \o << SubtitleStream(2, "hdmv_pgs_subtitle", "eng", FALSE) >>
ProbeFlac      == << AudioStream(0, "flac", 2, "stereo", Absent, Absent) >>

Scenarios ==
    { [input_file |-> "movie.mp4", probe |-> ProbeCompliant, force_stereo |-> FALSE],
      [input_file |-> "movie.mp4", probe |-> ProbeSurround, force_stereo |-> FALSE],
      [input_file |-> "movie.mkv", probe |-> ProbeSurround, force_stereo |-> FALSE],
      [input_file |-> "movie.mkv", probe |-> ProbeCompliant, force_stereo |-> TRUE],
      [input_file |-> "movie.mkv", probe |-> ProbeFrench, force_stereo |-> FALSE],
      [input_file |-> "movie.mkv", probe |-> ProbeCompliantPgs, force_stereo |-> FALSE],
      [input_file |-> "movie.mkv", probe |-> ProbeCompliantPgs, force_stereo |-> TRUE],
      [input_file |-> "movie.txt", probe |-> ProbeCompliant, force_stereo |-> FALSE],
      [input_file |-> "movie.flac", probe |-> ProbeFlac, force_stereo |-> FALSE] }

Init ==
    /\ scenario \in Scenarios
    /\ media = [p \in AllPaths |->
                   IF p = scenario.input_file
                   THEN MediaFile(scenario.probe, 0, TRUE, None) ELSE NoFile]
    /\ lockFile = NoFile /\ cacheFile = NoFile /\ cacheTmp = NoFile
    /\ IdleProcs
    /\ BuildIdle

Step(w) ==
          \/ AcqCleanupRead(w) \/ AcqCleanupUnlink(w) \/ AcqExists(w)
          \/ AcqCreate(w) \/ AcqWrite(w) \/ AcqVerify(w)
          \/ AcqInfo(w) \/ AcqInfoRemove(w)
          \/ TfLocked(w) \/ TfLockedRemove(w)
          \/ TfBegin(w) \/ TfHasCached(w) \/ TfGetCached(w) \/ TfProbe(w)
          \/ SpLoad(w) \/ SvOpen(w) \/ SvWrite(w) \/ SvRename(w)
          \/ TfDecide(w) \/ TfExtractPgs(w) \/ TfEncodeStart(w) \/ TfEncodeEnd(w)
          \/ TfRemoveFinal(w) \/ TfRename(w) \/ UcLoad(w) \/ TfRemoveSource(w)
          \/ TfRelease(w) \/ TfReleaseUnlink(w)
          \/ ProcessExit(w)

Next ==
    \/ \E w \in Workers : Start(w) \/ Step(w)
    \/ Tick

Spec == Init /\ [][Next]_vars

\* ------------------------------------------------------------------------
\* SpecSeq: one call of transcode_file at a time (a batch, or a second run
\* of the tool): a process starts only when no other is inside the call
\* ------------------------------------------------------------------------
StartAlone(w) ==
    /\ \A v \in Workers \ {w} : pc[v] \in {"idle"} \cup Finished
    /\ Start(w)

NextSeq ==
    \/ \E w \in Workers : StartAlone(w) \/ Step(w)
    \/ Tick

SpecSeq == Init /\ [][NextSeq]_vars

\* ------------------------------------------------------------------------
\* SpecInt: runs of the tool, one after the other, on the same file.  A
\* run sweeps the library for orphaned temp files, calls transcode_file and
\* exits; SIGINT or SIGTERM may arrive at any point of the call, and more
\* than an hour may pass between two runs.
\* ------------------------------------------------------------------------
\* file.endswith(('.tmp.mp4', '.tmp.mp3')) (line 2078)
IsTempPath(x) ==
    \E r \in PathTable : \E e \in {".mp4", ".mp3"} : x = r.base \o ".tmp" \o e

\* cleanup_orphaned_temp_files (lines 2067-2093), called by main before
\* anything else (line 2110)
Sweep(w) ==
    /\ pc[w] = "idle"
    /\ \A v \in Workers \ {w} : pc[v] \in {"idle"} \cup Finished
    /\ media' = [x \in AllPaths |->
                    IF IsTempPath(x) /\ media[x].exists /\ media[x].age > ORPHAN_MIN_AGE
                    THEN NoFile ELSE media[x]]
    /\ UNCHANGED << pc, tf, unfinished_output_file, tfOther >>

\* more than an hour passes while no run is under way
Age ==
    /\ \A w \in Workers : pc[w] \in {"idle"} \cup Finished
    /\ media' = [x \in AllPaths |->
                    IF media[x].exists THEN [media[x] EXCEPT !.age = ORPHAN_MIN_AGE + 1]
                    ELSE media[x]]
    /\ lockFile' = IF LockReadable /\ lockFile.age = 0
                   THEN [lockFile EXCEPT !.age = EXECUTOR_TIMEOUT + 1] ELSE lockFile
    /\ UNCHANGED << cacheFile, cacheTmp, procVars, buildVars >>

\* the positions of transcode_file between acquire() and the finally
\* clause, and those of them inside the try of line 1975
InCall == {"tf_begin", "tf_has_cached", "tf_get_cached", "tf_probe", "sp_load",
           "sv_open", "sv_write", "sv_rename", "tf_decide", "tf_extract",
           "tf_encode", "tf_encoding", "tf_remove_final", "tf_rename", "uc_load",
           "tf_remove_source"}
InTry(w) ==
    \/ pc[w] \in {"tf_encoding", "tf_remove_final", "tf_rename", "uc_load",
                   "tf_remove_source"}
    \/ pc[w] \in {"sv_open", "sv_write", "sv_rename"} /\ tf[w].ret = "tf_remove_source"

\* cleanup_unfinished_file (lines 321-327)
cleanup_unfinished_file(w) ==
    IF unfinished_output_file[w] # None
    THEN [media EXCEPT ![unfinished_output_file[w]] = NoFile]
    ELSE media

\* SIGINT or SIGTERM: the handler of line 332 runs cleanup_unfinished_file
\* and exit(1).  SystemExit leaves the call: from inside the try of line
\* 1975 through its finally clause, which releases the lock; from anywhere
\* else straight to the exit of the process.
Interrupt(w) ==
    /\ pc[w] \in InCall
    /\ media' = cleanup_unfinished_file(w)
    /\ SetTf(w, [tf[w] EXCEPT !.outcome = "interrupted"])
    /\ IF InTry(w) THEN Goto(w, "tf_release") ELSE Goto(w, "exited")
    /\ UNCHANGED << unfinished_output_file, tfOther >>

NextInt ==
    \/ \E w \in Workers : StartAlone(w) \/ Step(w) \/ Sweep(w) \/ Interrupt(w)
    \/ Tick
    \/ Age

SpecInt == Init /\ [][NextInt]_vars

\* ------------------------------------------------------------------------
\* SpecLock: the worker processes use a FileLock on one file: acquire with
\* or without wait, hold, release.  At the start the sidecar is absent or
\* was left by a holder that crashed: just now, more than self.timeout ago,
\* or more than six hours ago.
\* ------------------------------------------------------------------------
LeftLocks == {"none", "crashed_valid", "crashed_expired", "crashed_stale"}

LeftLockFile(left) ==
    CASE left = "none"            -> NoFile
      [] left = "crashed_valid"   -> LockData("crashed", TRUE, 0)
      [] left = "crashed_expired" -> LockData("crashed", TRUE, EXECUTOR_TIMEOUT + 1)
      [] left = "crashed_stale"   -> LockData("crashed", TRUE, STALE_MAX_AGE + 1)

InitLock ==
    /\ \E left \in LeftLocks :
          /\ scenario = [input_file |-> None, probe |-> NoProbe,
                         force_stereo |-> FALSE, lock |-> left]
          /\ lockFile = LeftLockFile(left)
    /\ media = [p \in AllPaths |-> NoFile]
    /\ cacheFile = NoFile /\ cacheTmp = NoFile
    /\ IdleProcs
    /\ BuildIdle

\* lock.acquire(wait) is called (line 219)
LockCall(w) ==
    /\ pc[w] = "idle"
    /\ \E wait \in BOOLEAN : SetTf(w, [tf0 EXCEPT !.wait = wait])
    /\ Goto(w, "acq_cleanup")
    /\ UNCHANGED << lockFile, otherVars >>

\* acquire(wait=False) has returned False (lines 258-259)
LockDenied(w) ==
    /\ pc[w] = "tf_locked"
    /\ SetTf(w, [tf[w] EXCEPT !.outcome = "denied"])
    /\ Goto(w, "returned")
    /\ UNCHANGED << lockFile, otherVars >>

\* acquire has returned True; the caller is done with the file and calls
\* release (line 292)
LockHeld(w) ==
    /\ pc[w] = "tf_begin"
    /\ Goto(w, "tf_release")
    /\ UNCHANGED << lockFile, tf, otherVars >>

NextLock ==
    \E w \in Workers :
        \/ LockCall(w)
        \/ AcqCleanupRead(w) \/ AcqCleanupUnlink(w) \/ AcqExists(w)
        \/ AcqCreate(w) \/ AcqWrite(w) \/ AcqVerify(w)
        \/ AcqInfo(w) \/ AcqInfoRemove(w)
        \/ LockDenied(w) \/ LockHeld(w)
        \/ TfRelease(w) \/ TfReleaseUnlink(w)

SpecLock == InitLock /\ [][NextLock]_vars

\* ------------------------------------------------------------------------
\* SpecCache: two worker processes use the MediaDatabase of one directory,
\* each for its own file, in the order transcode_file does: a lookup,
\* store_probe when nothing was found, update_after_conversion.  The
\* directory's cache file is absent at the start, or holds an entry for
\* movie.mkv written by this version or by an earlier one.
\* ------------------------------------------------------------------------
FileOf(w) == IF w = "w1" THEN "movie.mkv" ELSE "other.mkv"
OLD_DATABASE_VERSION == "0.9.0"

InitialCaches ==
    { NoFile }
    \cup { CacheData(DictPut(EmptyDict, [name |-> "movie.mkv", ver |-> 0],
                             [probe_entry(ProbeSurround, "pending")
                                 EXCEPT !.processing_version = v]),
                     TRUE, {}, FALSE) :
             v \in {MEDIA_DATABASE_VERSION, OLD_DATABASE_VERSION} }

InitCache ==
    /\ scenario = NoScenario
    /\ media = [p \in AllPaths |->
                   IF p = "movie.mkv" THEN MediaFile(ProbeSurround, 0, TRUE, None)
                   ELSE IF p = "other.mkv" THEN MediaFile(ProbeCompliant, 0, TRUE, None)
                   ELSE NoFile]
    /\ cacheFile \in InitialCaches
    /\ lockFile = NoFile /\ cacheTmp = NoFile
    /\ IdleProcs
    /\ BuildIdle

cacheOther == << lockFile, media, unfinished_output_file, encoder_runs,
                 scenario, buildVars >>

\* one of the three lookups for the fingerprint of the worker's file: what
\* it returned and what the cache file held for the key
CacheLookup(w) ==
    /\ pc[w] = "idle"
    /\ \E fn \in {"has_cached_probe", "get_cached_probe", "get_cached_action"} :
          LET fp == get_file_fingerprint(FileOf(w))
              d  == load_cache(cacheFile)
              found == IF fn = "has_cached_probe" THEN has_cached_probe(fp, d)
                       ELSE IF fn = "get_cached_probe"
                       THEN get_cached_probe(fp, d) # NoProbe
                       ELSE get_cached_action(fp, d) # None
          IN  /\ lookup' = [lookup EXCEPT ![w] =
                    [fn |-> fn, found |-> found,
                     file_present |-> cacheFile.exists,
                     has_key |-> HasKey(d, fp),
                     processing_version |->
                         IF HasKey(d, fp) THEN d[fp].processing_version ELSE None]]
              /\ SetTf(w, [tf0 EXCEPT !.input_file = FileOf(w), !.fingerprint = fp])
              /\ IF found THEN Goto(w, "db_update") ELSE Goto(w, "db_store")
    /\ UNCHANGED << cacheFile, cacheTmp, cacheOther >>

\* store_probe(fingerprint, probe, action='pending') for the worker's file
CacheStore(w) ==
    /\ pc[w] = "db_store"
    /\ SetTf(w, [tf[w] EXCEPT !.probe = media[FileOf(w)].probe, !.ret = "db_update"])
    /\ Goto(w, "sp_load")
    /\ UNCHANGED << cacheFile, cacheTmp, lookup, cacheOther >>

\* update_after_conversion(fingerprint, new_filepath, success, error) for
\* the worker's file, converted in place or failed: the load and the
\* changed dictionary; _save_cache follows when the entry was found
CacheUpdate(w) ==
    /\ pc[w] = "db_update"
    /\ \E success \in BOOLEAN :
          LET fp == tf[w].fingerprint
              r  == update_after_conversion(load_cache(cacheFile), fp, fp, TRUE,
                                            success, "error")
          IN  IF r.save
              THEN /\ SetTf(w, [tf[w] EXCEPT !.probe = NoProbe, !.cache_data = r.data,
                                             !.ret = "returned"])
                   /\ Goto(w, "sv_open")
              ELSE /\ SetTf(w, [tf[w] EXCEPT !.probe = NoProbe])
                   /\ Goto(w, "returned")
    /\ UNCHANGED << cacheFile, cacheTmp, lookup, cacheOther >>

NextCache ==
    \E w \in Workers :
        \/ CacheLookup(w) \/ CacheStore(w) \/ CacheUpdate(w)
        \/ SpLoad(w) \/ SvOpen(w) \/ SvWrite(w) \/ SvRename(w)

SpecCache == InitCache /\ [][NextCache]_vars

\* ------------------------------------------------------------------------
\* SpecBuild: every probe of up to MaxAudio audio streams, every flag
\* ------------------------------------------------------------------------
LangTags == {"eng", "und", Absent, "fra"}
AudioShapes ==
         { [ch |-> 2, layout |-> "stereo", lang |-> l, title |-> t] :
               l \in LangTags, t \in {Absent, ENHANCED_STEREO_TITLE} }
    \cup { [ch |-> 6, layout |-> y, lang |-> l, title |-> Absent] :
               l \in LangTags, y \in {Absent, "unknown", "", "5.1(side)"} }
    \cup { [ch |-> 8, layout |-> y, lang |-> l, title |-> Absent] :
               l \in LangTags, y \in {Absent, "unknown", "7.1"} }

ProbeOf(shapes) ==
    << VideoStream(0, "hevc", 1920, 1080) >> \o
    [i \in Pos(shapes) |-> AudioStream(i, "ac3", shapes[i].ch, shapes[i].layout,
                                       shapes[i].lang, shapes[i].title)]

SeqsUpTo(S, n) == UNION { [1..k -> S] : k \in 0..n }
BuildProbes == { ProbeOf(sh) : sh \in SeqsUpTo(AudioShapes, MaxAudio) }

InitBuild ==
    /\ b_probe \in BuildProbes
    /\ b_force_stereo \in BOOLEAN
    /\ b_args = NoArgs
    /\ b_ext = Absent /\ b_downgrade = FALSE /\ b_decision = NoDecision
    /\ n_path = NoPath /\ n_once = NoPath /\ n_twice = NoPath
    /\ f_call = NoCall /\ f_ret = NoReturn
    /\ IdleProcs
    /\ scenario = NoScenario
    /\ lockFile = NoFile /\ cacheFile = NoFile /\ cacheTmp = NoFile
    /\ media = [p \in AllPaths |-> NoFile]

Build ==
    /\ b_args = NoArgs
    /\ b_args' = build_ffmpeg_command(b_probe, b_force_stereo)
    /\ UNCHANGED << b_probe, b_force_stereo, b_ext, b_downgrade, b_decision,
                    n_path, n_once, n_twice, f_call, f_ret, fsVars, procVars >>

NextBuild == Build
SpecBuild == InitBuild /\ [][NextBuild]_vars

\* ------------------------------------------------------------------------
\* SpecSkip: the skip decision of transcode_file for every video probe of
\* up to MaxAudio audio streams, every extension and flag
\* ------------------------------------------------------------------------
SkipShapes ==
         { [codec |-> c, ch |-> 2, layout |-> "stereo", lang |-> l, title |-> t] :
               c \in {"aac", "ac3"}, l \in {"eng", Absent, "fra"},
               t \in {Absent, ENHANCED_STEREO_TITLE} }
    \cup { [codec |-> c, ch |-> 6, layout |-> y, lang |-> l, title |-> Absent] :
               c \in {"aac", "ac3"}, l \in {"eng", Absent, "fra"}, y \in {Absent, "5.1"} }
    \cup { [codec |-> c, ch |-> 8, layout |-> y, lang |-> l, title |-> Absent] :
               c \in {"aac", "ac3"}, l \in {"eng", Absent, "fra"}, y \in {Absent, "7.1"} }

SkipProbeOf(vcodec, height, shapes) ==
    << VideoStream(0, vcodec, (height * 16) \div 9, height) >> \o
    [i \in Pos(shapes) |-> AudioStream(i, shapes[i].codec, shapes[i].ch, shapes[i].layout,
                                       shapes[i].lang, shapes[i].title)]

SkipProbes ==
    { SkipProbeOf(v, h, sh) : v \in {"h264", "hevc"}, h \in {1080, 2160},
                              sh \in SeqsUpTo(SkipShapes, MaxAudio) }

InitSkip ==
    /\ b_probe \in SkipProbes
    /\ b_force_stereo \in BOOLEAN
    /\ b_ext \in {".mkv", ".mp4", ".avi"}
    /\ b_downgrade \in BOOLEAN
    /\ b_args = NoArgs /\ b_decision = NoDecision
    /\ n_path = NoPath /\ n_once = NoPath /\ n_twice = NoPath
    /\ f_call = NoCall /\ f_ret = NoReturn
    /\ IdleProcs
    /\ scenario = NoScenario
    /\ lockFile = NoFile /\ cacheFile = NoFile /\ cacheTmp = NoFile
    /\ media = [p \in AllPaths |-> NoFile]

\* the decision of lines 1817-1909, with the command the builder would
\* emit for the same probe
Decide ==
    /\ b_decision = NoDecision
    /\ b_decision' = [decided |-> TRUE,
                      skip |-> skip_decision(b_probe, b_ext, b_force_stereo, b_downgrade)]
    /\ UNCHANGED << b_probe, b_force_stereo, b_args, b_ext, b_downgrade,
                    n_path, n_once, n_twice, f_call, f_ret, fsVars, procVars >>

NextSkip == Decide
SpecSkip == InitSkip /\ [][NextSkip]_vars

\* ------------------------------------------------------------------------
\* SpecName: update_filename_resolution on every file name of up to
\* MaxWords words
\* ------------------------------------------------------------------------
NameWords == {"Movie", "4K", "uhd", "2160p", "1440p", "1080p", "BluRay"}
Separators == {".", " "}

Interleave(ws, ss) ==
    [i \in 1..(2 * Len(ws) - 1) |-> IF i % 2 = 1 THEN ws[(i + 1) \div 2] ELSE ss[i \div 2]]

Stems ==
    UNION { { Interleave(ws, ss) : ws \in [1..k -> NameWords],
                                   ss \in [1..(k - 1) -> Separators] } : k \in 1..MaxWords }

InitName ==
    /\ n_path \in { [stem |-> st, ext |-> ".mkv"] : st \in Stems }
    /\ n_once = NoPath /\ n_twice = NoPath
    /\ b_probe = NoProbe /\ b_force_stereo = FALSE /\ b_args = NoArgs
    /\ b_ext = Absent /\ b_downgrade = FALSE /\ b_decision = NoDecision
    /\ f_call = NoCall /\ f_ret = NoReturn
    /\ IdleProcs
    /\ scenario = NoScenario
    /\ lockFile = NoFile /\ cacheFile = NoFile /\ cacheTmp = NoFile
    /\ media = [p \in AllPaths |-> NoFile]

Rewrite ==
    /\ n_once = NoPath
    /\ n_once' = update_filename_resolution(n_path)
    /\ n_twice' = update_filename_resolution(update_filename_resolution(n_path))
    /\ UNCHANGED << n_path, b_probe, b_force_stereo, b_args, b_ext, b_downgrade,
                    b_decision, f_call, f_ret, fsVars, procVars >>

NextName == Rewrite
SpecName == InitName /\ [][NextName]_vars

\* ------------------------------------------------------------------------
\* SpecWalk: get_media_files on every directory made of the names below,
\* for every --type
\* ------------------------------------------------------------------------
DirNames ==
    { << "movie", "mkv" >>, << "movie", "mp4" >>, << "movie", "tmp", "mp4" >>,
      << "movie", "tmp", "mp3" >>, << "movie", "flac" >>, << "movie", "mp3" >>,
      << "CLIP", "MKV" >>, << "movie", "srt" >>, << "movie", "mkv", "lock" >> }

InitWalk ==
    /\ f_call \in { [fn |-> "get_media_files", filenames |-> d, media_type |-> t] :
                        d \in SUBSET DirNames, t \in {"video", "audio", "both"} }
    /\ f_ret = NoReturn
    /\ b_probe = NoProbe /\ b_force_stereo = FALSE /\ b_args = NoArgs
    /\ b_ext = Absent /\ b_downgrade = FALSE /\ b_decision = NoDecision
    /\ n_path = NoPath /\ n_once = NoPath /\ n_twice = NoPath
    /\ IdleProcs
    /\ scenario = NoScenario
    /\ lockFile = NoFile /\ cacheFile = NoFile /\ cacheTmp = NoFile
    /\ media = [p \in AllPaths |-> NoFile]

\* the variables a function call leaves alone
callOther == << b_probe, b_force_stereo, b_args, b_ext, b_downgrade, b_decision,
                n_path, n_once, n_twice, fsVars, procVars >>

Walk ==
    /\ f_ret = NoReturn
    /\ f_ret' = [returned |-> TRUE,
                 files |-> get_media_files(f_call.filenames, f_call.media_type)]
    /\ UNCHANGED << f_call, callOther >>

NextWalk == Walk
SpecWalk == InitWalk /\ [][NextWalk]_vars

\* ------------------------------------------------------------------------
\* SpecSidecar: the renaming of supporting files after a successful video
\* conversion, for every input container, stem, resolution and flag and
\* every set of files next to the input
\* ------------------------------------------------------------------------
SidecarStems == { << "Movie", " ", "4K" >>, << "Movie" >>, << "Movie", ".", "1080p" >> }
SidecarsOf(stem) ==
    { Entry(stem, << "srt" >>), Entry(stem, << "eng", "srt" >>), Entry(stem, << "nfo" >>),
      Entry(stem, << "jpg" >>), Entry(stem \o << " ", "Extras" >>, << "srt" >>),
      Entry(<< "Other" >>, << "srt" >>) }

InitSidecar ==
    /\ \E stem \in SidecarStems : \E ext \in {"mkv", "mp4", "avi"} :
       \E side \in SUBSET SidecarsOf(stem) :
          f_call \in { [fn |-> "transcode_file", stem |-> stem, ext |-> ext,
                         listing |-> side \cup {Entry(stem, << ext >>)},
                         height |-> h, downgrade_resolution |-> d] :
                           h \in {1080, 2160}, d \in BOOLEAN }
    /\ f_ret = NoReturn
    /\ b_probe = NoProbe /\ b_force_stereo = FALSE /\ b_args = NoArgs
    /\ b_ext = Absent /\ b_downgrade = FALSE /\ b_decision = NoDecision
    /\ n_path = NoPath /\ n_once = NoPath /\ n_twice = NoPath
    /\ IdleProcs
    /\ scenario = NoScenario
    /\ lockFile = NoFile /\ cacheFile = NoFile /\ cacheTmp = NoFile
    /\ media = [p \in AllPaths |-> NoFile]

Convert ==
    /\ f_ret = NoReturn
    /\ f_ret' = [returned |-> TRUE,
                 final_stem |-> final_stem_of(f_call.stem, "." \o f_call.ext, f_call.height,
                                              f_call.downgrade_resolution),
                 listing |-> after_conversion(f_call.listing, f_call.stem, "." \o f_call.ext,
                                              f_call.height, f_call.downgrade_resolution)]
    /\ UNCHANGED << f_call, callOther >>

NextSidecar == Convert
SpecSidecar == InitSidecar /\ [][NextSidecar]_vars

\* ------------------------------------------------------------------------
\* SpecSubs: build_ffmpeg_command on every probe with one English audio
\* stream and up to MaxSubs subtitle streams
\* ------------------------------------------------------------------------
SubShapes ==
    { [codec |-> c, lang |-> l, forced |-> f] :
          c \in {"subrip", "hdmv_pgs_subtitle", "dvd_subtitle"},
          l \in {"eng", Absent, "fra"}, f \in BOOLEAN }

SubProbeOf(shapes) ==
    << VideoStream(0, "hevc", 1920, 1080),
       AudioStream(1, "ac3", 2, "stereo", "eng", Absent) >> \o
    [i \in Pos(shapes) |-> SubtitleStream(i + 1, shapes[i].codec, shapes[i].lang,
                                          shapes[i].forced)]

SubProbes == { SubProbeOf(sh) : sh \in SeqsUpTo(SubShapes, MaxSubs) }

InitSubs ==
    /\ b_probe \in SubProbes
    /\ b_force_stereo \in BOOLEAN
    /\ b_args = NoArgs
    /\ b_ext = Absent /\ b_downgrade = FALSE /\ b_decision = NoDecision
    /\ n_path = NoPath /\ n_once = NoPath /\ n_twice = NoPath
    /\ f_call = NoCall /\ f_ret = NoReturn
    /\ IdleProcs
    /\ scenario = NoScenario
    /\ lockFile = NoFile /\ cacheFile = NoFile /\ cacheTmp = NoFile
    /\ media = [p \in AllPaths |-> NoFile]

SpecSubs == InitSubs /\ [][NextBuild]_vars

\* ------------------------------------------------------------------------
\* SpecClean: cleanup_missing_files on one directory that the host and the
\* container see under different paths.  Every entry was stored by
\* store_probe with the path its worker saw; the cleanup runs under either
\* mount, with any set of the files still on disk.
\* ------------------------------------------------------------------------
Mounts == {"/Storage/media/tv/Show", "/tv/Show"}
CleanNames == {"a.mkv", "b.mkv", "c.mp4"}
os_path_join(directory, name) == directory \o "/" \o name

\* store_probe: file_path and file_name of the entry (lines 280-281)
stored_entry(path_seen, filename) ==
    [file_path |-> os_path_join(path_seen, filename), file_name |-> filename]

InitClean ==
    /\ \E names \in SUBSET CleanNames : \E seen \in [names -> Mounts] :
          f_call \in { [fn |-> "cleanup_missing_files", directory |-> d, on_disk |-> present,
                         cache_data |-> [n \in names |-> stored_entry(seen[n], n)]] :
                           d \in Mounts, present \in SUBSET CleanNames }
    /\ f_ret = NoReturn
    /\ b_probe = NoProbe /\ b_force_stereo = FALSE /\ b_args = NoArgs
    /\ b_ext = Absent /\ b_downgrade = FALSE /\ b_decision = NoDecision
    /\ n_path = NoPath /\ n_once = NoPath /\ n_twice = NoPath
    /\ IdleProcs
    /\ scenario = NoScenario
    /\ lockFile = NoFile /\ cacheFile = NoFile /\ cacheTmp = NoFile
    /\ media = [p \in AllPaths |-> NoFile]

Clean ==
    /\ f_ret = NoReturn
    /\ f_ret' = [returned |-> TRUE,
                 cache_data |-> cleanup_missing_files(f_call.cache_data,
                                   { os_path_join(f_call.directory, n) : n \in f_call.on_disk })]
    /\ UNCHANGED << f_call, callOther >>

NextClean == Clean
SpecClean == InitClean /\ [][NextClean]_vars

\* ------------------------------------------------------------------------
\* SpecCached: the probe transcode_file works on when the file has a cache
\* entry (lines 1795-1799), next to a fresh probe of the same file, for
\* every video probe of SpecSkip, every extension and flag.  The entry is
\* the one store_probe wrote when the file was first probed (line 1812).
\* ------------------------------------------------------------------------
CachedFingerprint == [name |-> "movie.mkv", ver |-> 1]

cached_probe_of(p) ==
    LET cache_data == DictPut(EmptyDict, CachedFingerprint, probe_entry(p, "pending"))
    IN  IF has_cached_probe(CachedFingerprint, cache_data)
        THEN get_cached_probe(CachedFingerprint, cache_data)
        ELSE NoProbe

\* what transcode_file derives from a probe: the skip decision and, when the
\* file is not skipped, the command
outcome_of(p, ext, force_stereo, downgrade_resolution) ==
    LET skip == skip_decision(p, ext, force_stereo, downgrade_resolution)
    IN  [skip |-> skip,
         args |-> IF skip THEN NoArgs ELSE build_ffmpeg_command(p, force_stereo)]

RunBoth ==
    /\ f_ret = NoReturn
    /\ f_ret' = [returned |-> TRUE,
                 using_cache |-> cached_probe_of(b_probe) # NoProbe,
                 fresh |-> outcome_of(b_probe, b_ext, b_force_stereo, b_downgrade),
                 cached |-> outcome_of(cached_probe_of(b_probe), b_ext, b_force_stereo,
                                       b_downgrade)]
    /\ UNCHANGED << f_call, callOther >>

NextCached == RunBoth
SpecCached == InitSkip /\ [][NextCached]_vars

\* ------------------------------------------------------------------------
\* SpecAgain: one conversion by transcode_file and the skip decision on a
\* fresh probe of the file it produced, under the same flags, for every
\* video probe of SpecSkip, every extension and flag
\* ------------------------------------------------------------------------
\* the file the encoder writes: the video keeps the size of the input
\* unless the scaling of the resolution downgrade applies
converted_output(real, args, downgrade_resolution) ==
    LET out == encoder_output(real, args)
        vpos == FirstPos(real, LAMBDA s : s.codec_type = "video")
    IN  IF needs_resolution_downgrade(real, downgrade_resolution) \/ vpos = 0
        THEN out
        ELSE [out EXCEPT ![1].width = real[vpos].width, ![1].height = real[vpos].height]

\* transcode_file converts: the file is not skipped, the command has audio
\* (lines 1959-1965) and the encoder accepts it
converts(p, ext, force_stereo, downgrade_resolution) ==
    /\ ~skip_decision(p, ext, force_stereo, downgrade_resolution)
    /\ build_ffmpeg_command(p, force_stereo).has_audio
    /\ ArgsValidFor(p, build_ffmpeg_command(p, force_stereo))

ConvertAndProbe ==
    /\ f_ret = NoReturn
    /\ f_ret' =
          IF converts(b_probe, b_ext, b_force_stereo, b_downgrade)
          THEN LET out == converted_output(b_probe,
                              build_ffmpeg_command(b_probe, b_force_stereo), b_downgrade)
               IN  [returned |-> TRUE, converted |-> TRUE, output |-> out,
                    skip_again |-> skip_decision(out, ".mp4", b_force_stereo, b_downgrade)]
          ELSE [returned |-> TRUE, converted |-> FALSE, output |-> NoProbe,
                skip_again |-> FALSE]
    /\ UNCHANGED << f_call, callOther >>

NextAgain == ConvertAndProbe
SpecAgain == InitSkip /\ [][NextAgain]_vars

\* ------------------------------------------------------------------------
\* Claims about transcode_file and FileLock
\* ------------------------------------------------------------------------
\* acquire() returned True and transcode_file has not returned or raised
Holding(w) == tf[w].acquired /\ pc[w] \notin Finished
\* the sidecar at the lock path carries w's lock_id
OwnLock(w) == lockFile.exists /\ lockFile.lock_id = w
\* this step is a step of process w
StepOf(w) == pc'[w] # pc[w]

\* C1: of two workers called on the same input, never both are past
\* acquire() at once; the one that reports 'already processing' has not
\* invoked the encoder; they do not both give way; and once a worker has
\* completed its conversion its lock sidecar is gone.
C1_ExactlyOneEncodes ==
    /\ \A w \in Workers : \A v \in Workers \ {w} : ~(Holding(w) /\ Holding(v))
    /\ \A w \in Workers :
          tf[w].outcome = "already_processing" => encoder_runs[w] = 0
    /\ ~(\A w \in Workers : tf[w].outcome = "already_processing")
    /\ \A w \in Workers :
          (pc[w] \in Finished /\ tf[w].outcome = "success") => ~OwnLock(w)

\* C2: when transcode_file had acquired the lock and has returned or
\* raised, by whatever path, no sidecar with its lock_id exists.
C2_LockReleasedOnEveryPath ==
    \A w \in Workers : (pc[w] \in Finished /\ tf[w].acquired) => ~OwnLock(w)

\* C3: while a worker is inside transcode_file holding a written lock
\* less than 6 hours old, no step of another worker removes or replaces
\* the sidecar, and no other worker's acquire() returns True.
C3_YoungLockSurvives ==
    [][\A w \in Workers :
          (Holding(w) /\ OwnLock(w) /\ lockFile.written
              /\ lockFile.age < STALE_MAX_AGE /\ ~StepOf(w))
          => /\ lockFile'.exists /\ lockFile'.lock_id = w
             /\ \A v \in Workers \ {w} : tf'[v].acquired = tf[v].acquired]_vars

\* the temp output that w's encoder run created is still in the directory
TempLeft(w) ==
    /\ tf[w].temp # None
    /\ media[tf[w].temp].exists
    /\ media[tf[w].temp].writer = w

\* C4: after transcode_file has returned or raised, and after the process
\* has exited, the job's temp output does not exist.
C4_NoTempAfterExit ==
    \A w \in Workers : pc[w] \in Finished => ~TempLeft(w)

\* the conversion_count values the cache holds for a path
ConversionCounts(path) ==
    LET d == load_cache(cacheFile)
    IN  { d[k].conversion_count : k \in { x \in DOMAIN d : x.name = path } }

\* C5: a run that found the cache entry of its unchanged input never
\* invokes the encoder and leaves the entry's conversion_count as it was.
C5_SecondRunIsNoOp ==
    [][\A w \in Workers :
          (tf[w].using_cache /\ StepOf(w))
          => /\ encoder_runs'[w] = encoder_runs[w]
             /\ ConversionCounts(tf[w].input_file)' = ConversionCounts(tf[w].input_file)]_vars

\* the step that ends a successful conversion: os.remove of the source or
\* its omission, after exit 0 and the rename
Completes(w) == pc[w] = "tf_remove_source" /\ pc'[w] = "tf_release"
\* the final path holds the file w's encoder wrote
NewFileAt(w) ==
    /\ media[tf[w].final].exists
    /\ media[tf[w].final].writer = w
    /\ media[tf[w].final].complete

FailureRecorded(w) ==
    LET d == load_cache(cacheFile)
        f == media[tf[w].input_file]
    IN  /\ ~TempLeft(w)
        /\ HasKey(d, tf[w].fingerprint)
        /\ d[tf[w].fingerprint].processing_error \notin {Absent, None}
        /\ d[tf[w].fingerprint].last_processed # Absent
        /\ f.exists /\ f.ver = tf[w].fingerprint.ver
        /\ pc[w] = "returned"

\* C7: when the encoder exits nonzero for a file that has a cache entry,
\* then on return the temp output is removed, the entry is still present
\* with processing_error set and last_processed updated, the source is
\* untouched, and transcode_file returns normally.
C7_EncoderFailureRecorded ==
    [][\A w \in Workers :
          (pc[w] \notin Finished /\ pc'[w] \in Finished
              /\ tf'[w].outcome = "encoder_failed"
              /\ HasKey(load_cache(cacheFile), tf[w].fingerprint))
          => FailureRecorded(w)']_vars

\* ------------------------------------------------------------------------
\* Claims about MediaDatabase
\* ------------------------------------------------------------------------
\* the step in which w's _save_cache renames the temp file over the cache
Renames(w) == pc[w] = "sv_rename" /\ StepOf(w) /\ cacheTmp.exists

\* C8: the cache file always holds one complete JSON document, and no
\* _save_cache renames a temp file that another writer still has open
\* for writing.
C8_CacheWritesAtomic ==
    [][/\ cacheFile'.exists => cacheFile'.complete
       /\ \A w \in Workers : Renames(w) => cacheTmp.open_by \ {w} = {}]_vars

\* C9: a lookup that returns an entry found the cache file present, the
\* fingerprint key in it, and the entry's processing_version equal to
\* MEDIA_DATABASE_VERSION.
C9_LookupChecksVersion ==
    \A w \in Workers :
        lookup[w].found
        => /\ lookup[w].file_present
           /\ lookup[w].has_key
           /\ lookup[w].processing_version = MEDIA_DATABASE_VERSION

\* ------------------------------------------------------------------------
\* Claims about build_ffmpeg_command
\* ------------------------------------------------------------------------
Built == b_args # NoArgs

\* the input stream an emitted -map argument is, or is derived from, found
\* by following the filter graph back from the label
RECURSIVE SourceOf(_, _, _)
SourceOf(m, filters, fuel) ==
    IF m.kind = "stream" THEN m.idx
    ELSE IF fuel = 0 THEN NoIdx
    ELSE LET k == FirstPos(filters, LAMBDA f : \E j \in Pos(f.outs) : f.outs[j] = m.label)
         IN  IF k = 0 THEN NoIdx ELSE SourceOf(filters[k].src, filters, fuel - 1)

MappedSources ==
    { SourceOf(b_args.audio_maps[n], b_args.filter_complex, 4) : n \in Pos(b_args.audio_maps) }

LanguageArgs == { b_args.audio_labels[i] : i \in { j \in Pos(b_args.audio_labels) :
                                                    b_args.audio_labels[j].key = "language" } }

\* C10: every mapped output audio stream is, or is derived from, an input
\* stream tagged eng, und or untagged, and has language=eng metadata at its
\* own output index (and language metadata addresses no other index); no
\* input stream with another language is mapped.
C10_OutputAudioIsEnglish ==
    Built =>
        /\ \A n \in Pos(b_args.audio_maps) :
              LET src == SourceOf(b_args.audio_maps[n], b_args.filter_complex, 4)
              IN  /\ src # NoIdx
                  /\ IsAudio(StreamAt(b_probe, src))
                  /\ IsEnglishCompatible(StreamAt(b_probe, src))
                  /\ Meta(n - 1, "language", "eng") \in LanguageArgs
        /\ \A a \in LanguageArgs : a.val = "eng" /\ a.idx \in 0..(Len(b_args.audio_maps) - 1)
        /\ \A i \in Pos(b_probe) :
              (IsAudio(b_probe[i]) /\ ~IsEnglishCompatible(b_probe[i]))
                  => b_probe[i].index \notin MappedSources

\* a probe with a foreign-language surround stream next to an English
\* stream has been built and produced audio
C10_Witness ==
    /\ Built
    /\ b_args.has_audio
    /\ \E i \in Pos(b_probe) : IsAudio(b_probe[i]) /\ Lang(b_probe[i]) = "fra"
                               /\ b_probe[i].channels >= 6
    /\ \E i \in Pos(b_probe) : IsAudio(b_probe[i]) /\ IsEnglishCompatible(b_probe[i])

\* the labels defined by the filters before position k of the graph
LabelsBefore(k) ==
    { b_args.filter_complex[j].outs[i] :
          <<j, i>> \in { <<j, i>> \in (1..(k - 1)) \X (1..2) :
                            i <= Len(b_args.filter_complex[j].outs) } }

\* the (filter, output) positions of the graph
LabelDefs ==
    { d \in Pos(b_args.filter_complex) \X (1..2) :
          d[2] <= Len(b_args.filter_complex[d[1]].outs) }

\* C11: in the emitted filter graph every filter input is an input stream
\* [0:N] or a label defined by an earlier filter, every -map [name] names
\* a label defined in the graph, and no label is defined twice.
C11_FilterGraphValid ==
    Built =>
        /\ \A k \in Pos(b_args.filter_complex) :
              LET f == b_args.filter_complex[k]
              IN  f.src.kind = "stream" \/ f.src.label \in LabelsBefore(k)
        /\ \A n \in Pos(b_args.audio_maps) :
              b_args.audio_maps[n].kind = "label"
                  => b_args.audio_maps[n].label
                         \in LabelsBefore(Len(b_args.filter_complex) + 1)
        /\ \A d \in LabelDefs : \A e \in LabelDefs :
              d # e => b_args.filter_complex[d[1]].outs[d[2]]
                           # b_args.filter_complex[e[1]].outs[e[2]]

\* a graph of three filters was built: the 5.1 pan, its asplit and the
\* stereo downmix that consumes the second branch
C11_Witness ==
    /\ Built
    /\ Len(b_args.filter_complex) = 3
    /\ \E n \in Pos(b_args.audio_maps) : b_args.audio_maps[n] = MapLabel("aout")
    /\ \E k \in Pos(b_args.filter_complex) :
          b_args.filter_complex[k].src = MapLabel("for_stereo")

\* the place of an emitted -map in the documented order: 1 the selected
\* surround, 2 the derived 5.1, 3 a preserved stereo, 4 the derived stereo
MapRank(m) ==
    IF m = MapLabel("surround_51") THEN 2
    ELSE IF m = MapLabel("aout") THEN 4
    ELSE IF SourceOf(m, b_args.filter_complex, 4) = b_args.surround_idx THEN 1
    ELSE 3

\* C12: the audio -map arguments are in the order selected surround,
\* derived 5.1, preserved stereo, derived stereo; output index 0 is the
\* selected surround when one was selected, and otherwise the first input
\* audio stream in probe order whose language is eng, und or empty.
C12_AudioMapOrder ==
    Built =>
        /\ \A n \in Pos(b_args.audio_maps) : \A k \in Pos(b_args.audio_maps) :
              n < k => MapRank(b_args.audio_maps[n]) < MapRank(b_args.audio_maps[k])
        /\ b_args.surround_idx # NoIdx
              => /\ Len(b_args.audio_maps) > 0
                 /\ MapRank(b_args.audio_maps[1]) = 1
        /\ b_args.surround_idx = NoIdx
              => LET k == FirstPos(b_probe, LAMBDA s : IsAudio(s) /\ IsEnglishCompatible(s))
                 IN  b_args.audio_maps
                         = IF k = 0 THEN << >> ELSE << MapStream(b_probe[k].index) >>

\* no surround was selected and the probe holds two streams that the
\* fallback accepts: the first of them is at output index 0
C12_Witness ==
    /\ Built
    /\ b_args.surround_idx = NoIdx
    /\ Len(b_args.audio_maps) = 1
    /\ Cardinality({ i \in Pos(b_probe) : IsAudio(b_probe[i])
                                          /\ IsEnglishCompatible(b_probe[i]) }) = 2

\* a 6-channel stream whose channel_layout is absent, empty or 'unknown'
NeedsChannelmap(s) ==
    IsAudio(s) /\ s.channels = 6 /\ GetOr(s.channel_layout, "unknown") \in {"unknown", ""}

\* C16: every mapped 6-channel stream of unknown layout is routed through
\* the channelmap filter and encoded to AAC; it is never mapped directly
\* as 0:N.
C16_UnknownLayoutIsChannelmapped ==
    Built =>
        \A n \in Pos(b_args.audio_maps) :
            LET m == b_args.audio_maps[n]
                src == SourceOf(m, b_args.filter_complex, 4)
            IN  (src # NoIdx /\ NeedsChannelmap(StreamAt(b_probe, src)))
                => /\ m.kind = "label"
                   /\ \A k \in Pos(b_args.filter_complex) :
                         b_args.filter_complex[k].src = MapStream(src)
                             => b_args.filter_complex[k].op = "channelmap"
                   /\ b_args.audio_codec_args[n].codec = "aac"

\* ------------------------------------------------------------------------
\* Claims about update_filename_resolution
\* ------------------------------------------------------------------------
\* C13: update_filename_resolution applied to its own result returns that
\* result, and a name whose stem already carries the 1080p token is
\* returned unchanged.
C13_RenameIdempotent ==
    n_once # NoPath =>
        /\ n_twice = n_once
        /\ (\E i \in Pos(n_path.stem) : n_path.stem[i] = TARGET_RESOLUTION)
              => n_once = n_path

\* ------------------------------------------------------------------------
\* Claims about the skip decision
\* ------------------------------------------------------------------------
\* the tracks build_ffmpeg_command would derive for the probe
Derives == analyze_surround(b_probe, select_surround(b_probe), b_force_stereo)

\* the documented conditions of a skip
SkipConditions ==
    LET au == SelectSeq(b_probe, IsAudio)
        vpos == FirstPos(b_probe, LAMBDA s : s.codec_type = "video")
    IN  /\ vpos > 0 /\ b_probe[vpos].codec_name = "h264"
        /\ \A i \in Pos(au) : au[i].codec_name = "aac"
        /\ b_ext \in {".mp4", ".mkv"}
        /\ ~Derives.stereo
        /\ ~Derives.from71
        /\ \A i \in Pos(au) : Lang(au[i]) = "eng"
        /\ ~(b_downgrade /\ (b_probe[vpos].height > 1080 \/ b_probe[vpos].width > 1920))
        /\ ~b_force_stereo

\* C15: transcode_file skips a video if and only if it is h264 with only
\* aac audio in an .mp4 or .mkv, the builder would derive neither a
\* dialogue stereo nor a 5.1 from 7.1, every audio language is eng, no
\* resolution downgrade is required and force_stereo is false.
C15_SkipIffCompliant ==
    b_decision.decided => (b_decision.skip <=> SkipConditions)

\* ------------------------------------------------------------------------
\* Claims about subtitles and skipped files
\* ------------------------------------------------------------------------
\* the input file of the run has a PGS stream
InputHasPgs == \E i \in Pos(scenario.probe) : IsPgs(scenario.probe[i])
\* a .sup sidecar is in the directory
SupExists == \E x \in AllPaths : splitext(x).ext = ".sup" /\ media[x].exists
\* w is past the skip decision of a video and has not left transcode_file
Building(w) == pc[w] \in {"tf_extract", "tf_encode", "tf_encoding"}

\* C17: no PGS stream of the input is passed to -map; after a completed
\* conversion of a video a .sup sidecar exists if and only if the input
\* had a PGS stream; and a file without PGS never gets a sidecar.
C17_PgsOnlyAsSidecar ==
    /\ \A w \in Workers :
          Building(w) =>
              \A i \in Pos(scenario.probe) :
                  IsPgs(scenario.probe[i])
                      => scenario.probe[i].index \notin CommandOf(w).subtitle_maps
    /\ \A w \in Workers :
          (pc[w] \in Finished /\ tf[w].outcome = "success" /\ IsVideoInput(w))
              => (SupExists <=> InputHasPgs)
    /\ ~InputHasPgs => ~SupExists

\* every audio stream of the input has a language other than eng, und or
\* empty
OnlyForeignAudio ==
    /\ \E i \in Pos(scenario.probe) : IsAudio(scenario.probe[i])
    /\ \A i \in Pos(scenario.probe) :
          IsAudio(scenario.probe[i]) => ~IsEnglishCompatible(scenario.probe[i])

\* the directory holds the source as it was and nothing else
OnlySourceLeft ==
    \A x \in AllPaths :
        media[x] = IF x = scenario.input_file
                   THEN MediaFile(scenario.probe, 0, TRUE, None) ELSE NoFile

\* the cache entry of w's input holds something other than the
\* placeholder action that store_probe wrote
SkipReasonRecorded(w) ==
    LET d == load_cache(cacheFile)
    IN  /\ HasKey(d, tf[w].fingerprint)
        /\ d[tf[w].fingerprint].action # "pending"

\* C14: a video whose audio is all foreign is skipped for lack of English
\* audio: when transcode_file, having taken the lock, has returned, the
\* encoder was not invoked, the directory holds the untouched source and
\* no other file, and the cache entry records the skip reason.
C14_NoEnglishAudioSkipped ==
    \A w \in Workers :
        (pc[w] \in Finished /\ tf[w].acquired /\ OnlyForeignAudio
            /\ splitext(scenario.input_file).ext \in VIDEO_EXTS)
        => /\ tf[w].outcome = "no_english_audio"
           /\ encoder_runs[w] = 0
           /\ OnlySourceLeft
           /\ SkipReasonRecorded(w)

\* ------------------------------------------------------------------------
\* Claims about FileLock
\* ------------------------------------------------------------------------
\* acquire returned True to w and w has not called release
HasLock(w) == pc[w] = "tf_begin"

\* C18: the sidecar left by a crashed holder is more than six hours old:
\* a call of acquire(wait=False) made while no other worker uses the lock
\* returns True, and at no time have two workers both been told True
\* without a release in between.
C18_StaleLockTakenByOne ==
    scenario.lock = "crashed_stale" =>
        /\ \A w \in Workers :
              (pc[w] = "returned" /\ ~tf[w].wait
                  /\ \A v \in Workers \ {w} : pc[v] = "idle")
              => tf[w].acquired
        /\ Cardinality({ w \in Workers : HasLock(w) }) <= 1

\* C19: a step of release() that deletes the sidecar deletes one written
\* by the caller; when release() finds the sidecar missing, unreadable or
\* written by another worker it returns and the sidecar is unchanged.
C19_ReleaseDeletesOwnOnly ==
    [][\A w \in Workers :
          /\ (pc[w] = "tf_release_unlink" /\ StepOf(w) /\ lockFile' # lockFile)
                => lockFile.lock_id = w
          /\ (pc[w] = "tf_release" /\ StepOf(w)
                 /\ ~(LockReadable /\ lockFile.lock_id = w))
                => (pc'[w] = "returned" /\ lockFile' = lockFile)]_vars

\* C20: acquire(wait=True), called while another worker holds a valid
\* lock, neither raises nor returns False.
C20_WaitNeverFails ==
    \A w \in Workers :
        (tf[w].wait /\ \E v \in Workers \ {w} :
                          HasLock(v) /\ LockReadable /\ lockFile.lock_id = v)
        => (pc[w] # "raised" /\ tf[w].outcome # "denied")

\* ------------------------------------------------------------------------
\* Claims about the uses of filter labels
\* ------------------------------------------------------------------------
\* the filters that read label l, and the -map arguments that name it
FilterUses(l) ==
    { k \in Pos(b_args.filter_complex) : b_args.filter_complex[k].src = MapLabel(l) }
MapUses(l) ==
    { n \in Pos(b_args.audio_maps) : b_args.audio_maps[n] = MapLabel(l) }

\* C30: every label defined in the emitted filter graph is consumed exactly
\* once in the whole command: by one later filter or by one -map argument,
\* never by both and never twice.
C30_LabelsConsumedOnce ==
    Built =>
        \A d \in LabelDefs :
            LET l == b_args.filter_complex[d[1]].outs[d[2]]
            IN  Cardinality(FilterUses(l)) + Cardinality(MapUses(l)) = 1

\* ------------------------------------------------------------------------
\* Claims about the directory walk
\* ------------------------------------------------------------------------
\* the name has the form <stem>.tmp.<ext>
IsTempName(f) == Len(f) >= 3 /\ f[Len(f) - 1] = "tmp"

\* C21: no path in the list returned by get_media_files has the form
\* <stem>.tmp.<ext>.
C21_WalkSkipsTemps ==
    f_ret.returned => \A f \in f_ret.files : ~IsTempName(f)

\* ------------------------------------------------------------------------
\* Claims about interrupts and the loss of data
\* ------------------------------------------------------------------------
\* C22: a process that SIGINT or SIGTERM reached inside transcode_file,
\* after it had acquired the lock, has exited (with status 1): its temp
\* output is gone and the lock sidecar is not one it wrote.
C22_InterruptCleansUp ==
    \A w \in Workers :
        (pc[w] = "exited" /\ tf[w].outcome = "interrupted")
        => /\ tf[w].temp # None => ~media[tf[w].temp].exists
           /\ ~OwnLock(w)

\* the paths of the run: the source, the final output, the temp output
FinalPath == splitext(scenario.input_file).base
                 \o (IF splitext(scenario.input_file).ext \in VIDEO_EXTS
                     THEN ".mp4" ELSE ".mp3")
TempPath == splitext(scenario.input_file).base \o ".tmp"
                 \o (IF splitext(scenario.input_file).ext \in VIDEO_EXTS
                     THEN ".mp4" ELSE ".mp3")
Whole(x) == media[x].exists /\ media[x].complete

\* C28: at least one complete copy of the media is on disk: the source,
\* the encoded temp file or the final output; and the source is not gone,
\* nor is a complete temp file deleted by the cleanup handler, unless the
\* final output exists.
C28_NoDataLoss ==
    /\ Whole(scenario.input_file) \/ Whole(TempPath) \/ Whole(FinalPath)
    /\ ~media[scenario.input_file].exists => Whole(FinalPath)

\* C25: while a worker that holds the lock of the file has its encoder
\* running, no step of another worker creates, writes, renames or deletes
\* that worker's temp output.
C25_TempOwnedByHolder ==
    [][\A v \in Workers :
          (pc[v] = "tf_encoding" /\ OwnLock(v))
          => \A w \in Workers \ {v} :
                 StepOf(w) => media'[tf[v].temp] = media[tf[v].temp]]_vars

\* ------------------------------------------------------------------------
\* Claims about supporting files
\* ------------------------------------------------------------------------
\* the files next to the input that the rename is to carry along
Sidecars ==
    { e \in f_call.listing :
          /\ startswith(e, f_call.stem)
          /\ e # Entry(f_call.stem, << f_call.ext >>)
          /\ e.tail[Len(e.tail)] \in SUPPORTING_FILE_EXTENSIONS }

\* C23: when a successful resolution-downgrade conversion has given the
\* final output a stem other than the input's, every supporting file whose
\* name starts with the original stem has been renamed to the new stem,
\* whatever the container of the input.
C23_SidecarsFollowRename ==
    (f_ret.returned /\ f_call.fn = "transcode_file" /\ f_ret.final_stem # f_call.stem)
    => \A e \in Sidecars :
          /\ rebased(e, f_call.stem, f_ret.final_stem) \in f_ret.listing
          /\ e \notin f_ret.listing

\* ------------------------------------------------------------------------
\* Claims about subtitle language tags
\* ------------------------------------------------------------------------
\* the output subtitle indexes of the mapped streams that have no
\* language tag
UntaggedOutputs ==
    { sub_idx(b_probe, b_probe[i].index) :
          i \in { j \in Pos(b_probe) : /\ b_probe[j].index \in b_args.subtitle_maps
                                        /\ Lang(b_probe[j]) = "" } }

\* C24: the -metadata:s:s:K language=eng arguments of the command are
\* exactly those of the mapped text subtitle streams without a language
\* tag, each with K the stream's own output subtitle index.
C24_SubtitleTagsHitOwnStream ==
    Built => b_args.subtitle_lang_metadata = UntaggedOutputs
\* ------------------------------------------------------------------------
\* Claims about the cache maintenance and the cached probe
\* ------------------------------------------------------------------------
\* the entries whose media file is still in the directory
EntriesOfPresentFiles ==
    { h \in DOMAIN f_call.cache_data : f_call.cache_data[h].file_name \in f_call.on_disk }

\* C26: cleanup_missing_files removes exactly the cache entries whose media
\* file is no longer in the directory and keeps every entry whose file is
\* still there, whichever mount path the entry was stored under.
C26_CleanupRemovesExactlyMissing ==
    f_ret.returned => DOMAIN f_ret.cache_data = EntriesOfPresentFiles

\* C27: a file with a cache entry gets the same skip decision and the same
\* command from the probe rebuilt by get_cached_probe as from a fresh probe.
C27_CacheTransparent ==
    (f_ret.returned /\ f_ret.using_cache) => f_ret.cached = f_ret.fresh

\* the input has an English or unlabeled audio stream
HasEnglishAudio ==
    \E i \in Pos(b_probe) : IsAudio(b_probe[i]) /\ IsEnglishCompatible(b_probe[i])

\* C29: when an input with an English or unlabeled audio stream is converted
\* with force_stereo false, the skip decision on a fresh probe of the
\* produced file, under the same flags, is to skip.
C29_ConversionIsFixpoint ==
    (f_ret.returned /\ f_ret.converted /\ HasEnglishAudio /\ ~b_force_stereo)
        => f_ret.skip_again

====
